---- MODULE Spec2Model ----
(***************************************************************************)
(* EmotionMemCore: the batch orchestrator (api/endpoints/batch.py) and the *)
(* rate limiter with its middleware (api/middleware/rate_limit.py) as      *)
(* state machines.                                                         *)
(*                                                                         *)
(* Strings are modelled by the two things the handlers look at: their      *)
(* length and whether strip() leaves anything.                              *)
(* List positions are 1-based here; the "index" fields keep Python's       *)
(* 0-based values.                                                         *)
(***************************************************************************)
EXTENDS Integers, Sequences, FiniteSets, Bags, TLC

\* Python's None where a number is expected
NoneNum == 0 - 1

Min(a, b) == IF a <= b THEN a ELSE b

Max(a, b) == IF a >= b THEN a ELSE b

RECURSIVE SumSeq(_)
SumSeq(s) == IF s = <<>> THEN 0 ELSE Head(s) + SumSeq(Tail(s))

(***************************************************************************)
(* Part 1.  Batch orchestrator                                             *)
(***************************************************************************)

VARIABLES
    batchKind,   \* "save": batch_save_memories, "search": batch_search_memories
    requests,    \* the input list (requests, resp. queries)
    top_k,       \* batch-search's top_k parameter
    bpc,         \* the handler: "received", "running", "rejected", "done"
    semaphore,   \* asyncio.Semaphore._value
    wpc,         \* per task: "pending" (waits for the semaphore), "inservice", "done"
    taskResult,  \* per task: the dict the worker returned, NoResult before
    svcCalls,    \* per item: invocations of memory_service.save_memory / search_memories
    svcOutcome,  \* history: per item, what the service call did ("ok", "failresp", "raise")
    order,       \* history: the order in which the workers completed (small batches)
    response     \* the handler's outcome: NoResponse, or the report / the HTTPException

batchVars == <<batchKind, requests, top_k, bpc, semaphore, wpc, taskResult,
               svcCalls, svcOutcome, order, response>>

\* the rate limiter and its middleware (Part 2)
VARIABLES
    now,            \* the clock, in ticks
    config,         \* what RateLimiter.__init__ read from the environment
    request_counts, \* RateLimiter.request_counts: key -> timestamps, oldest first
    burst_counts,   \* RateLimiter.burst_counts: key -> int
    last_cleanup,   \* RateLimiter.last_cleanup
    inflight,       \* bag of the requests suspended in call_next inside rate_limit_middleware
    arrivals,       \* number of requests that entered the middleware
    lastDecision,   \* history: the last _check_rate_limit call, with the state it read
    admitLog,       \* history: every recorded request <<key, time, endpoint>>, never pruned
    twins,          \* history: two more limiters given the same clock (see NoTwins)
    lastOutcome     \* history: how the last finished request left the middleware

rlVars == <<now, config, request_counts, burst_counts, last_cleanup, inflight,
            arrivals, lastDecision, admitLog, twins, lastOutcome>>

\* API-key authentication (Part 3)
VARIABLES
    auth_enabled,   \* APIKeyAuth.auth_enabled
    lastAuth        \* history: what auth_middleware did with the latest request

authVars == <<auth_enabled, lastAuth>>

\* the memory service, its summarizer and its store (Part 4)
VARIABLES
    llm_provider,   \* which BaseLLM get_llm_client built: "claude" or "mock"
    hash_order,     \* the iteration order of a set of Emotion members
    collection,     \* the Chroma collection: id -> metadata
    next_id,        \* uuid4(): the next fresh id
    spc,            \* where the save in progress is: "idle", "summarizer", "embedder", "store_embedding", "store"
    sreq,           \* the save request in progress
    llm_response,   \* the LLMResponse of the save in progress
    invoked,        \* history: provider and store calls made for the latest request
    collection_before, \* history: the collection when the latest request arrived
    reply,          \* history: the answer to the latest request
    ops,            \* history: requests received
    saved,          \* history: id -> the Memory a successful save built
    search,         \* history: the latest search and the candidates the store ranked
    extraction,     \* history: the latest emotion extraction, its text and its result
    deletes         \* the DELETE /memory/{id} requests that arrived while others were in
                    \* progress: id, position ("checked", "done") and answer; never pruned

svcVars == <<llm_provider, hash_order, collection, next_id, spc, sreq, llm_response,
             invoked, collection_before, reply, ops, saved, search, extraction, deletes>>

\* everything outside the batch orchestrator and the rate limiter
extVars == <<authVars, svcVars>>

\* ---- bounds of the exploration ----
\* Batches of up to MaxN items are explored with every item class, every
\* service outcome and every completion order; the larger batches below
\* (one over each program limit) are explored with well-formed items only.
MaxN == 3

\* ---- program constants ----
SaveMaxBatch == 100

SearchMaxBatch == 50

SaveMaxConcurrent == 10

SearchMaxConcurrent == 5

BatchTopKMax == 20

QueryMaxLen == 1000

\* ---- strings ----
StrEmpty == [len |-> 0, blank |-> TRUE]

StrSpace == [len |-> 1, blank |-> TRUE]

StrText == [len |-> 5, blank |-> FALSE]

StrLong == [len |-> 1001, blank |-> FALSE]

StrHuge == [len |-> 10001, blank |-> FALSE]

\* str.strip() is empty
Blank(s) == s.blank

\* a save request, by the two fields the handler validates (batch.py 75, 80).
\* The SaveRequest of api/schemas/memory.py names them user and ai and is
\* not the class the handlers, the service and the tests are written for;
\* the fields are taken as those callers use them, and blank values reach
\* the handler (its 400 answers are what the tests expect).
OkSave == [user_message |-> StrText, ai_message |-> StrText]

SaveItems ==
    { OkSave,
      [user_message |-> StrEmpty, ai_message |-> StrText],
      [user_message |-> StrSpace, ai_message |-> StrText],
      [user_message |-> StrText, ai_message |-> StrEmpty],
      [user_message |-> StrText, ai_message |-> StrSpace],
      [user_message |-> StrHuge, ai_message |-> StrText] }

QueryItems == { StrText, StrEmpty, StrSpace, StrLong }

TopKs == { 0, 5, BatchTopKMax, BatchTopKMax + 1 }

SeqsUpTo(S, n) == UNION { [1..k -> S] : k \in 0..n }

Uniform(n, x) == [i \in 1..n |-> x]

\* ---- pre-flight validation ----
Reject(detail, pos) == [status |-> 400, detail |-> detail, item |-> pos]

\* the validation raised nothing
Pass == [status |-> 0, detail |-> "pass", item |-> 0]

NoResponse == [status |-> 0, detail |-> "pending", item |-> 0]

RECURSIVE SaveItemCheck(_, _)
\* batch.py 74-84: the first item with a blank field decides
SaveItemCheck(reqs, i) ==
    IF i > Len(reqs) THEN Pass
    ELSE IF Blank(reqs[i].user_message) THEN Reject("user_message_empty", i)
    ELSE IF Blank(reqs[i].ai_message) THEN Reject("ai_message_empty", i)
    ELSE SaveItemCheck(reqs, i + 1)

SavePreflightSizesOnly(reqs) ==
    IF Len(reqs) = 0 THEN Reject("empty_batch", 0)
    ELSE IF Len(reqs) > SaveMaxBatch THEN Reject("batch_too_large", 0)
    ELSE Pass

SavePreflight(reqs) ==
    IF Len(reqs) = 0 THEN Reject("empty_batch", 0)
    ELSE IF Len(reqs) > SaveMaxBatch THEN Reject("batch_too_large", 0)
    ELSE SaveItemCheck(reqs, 1)

RECURSIVE QueryCheck(_, _)
\* batch.py 264-274
QueryCheck(qs, i) ==
    IF i > Len(qs) THEN Pass
    ELSE IF Blank(qs[i]) THEN Reject("query_empty", i)
    ELSE IF qs[i].len > QueryMaxLen THEN Reject("query_too_long", i)
    ELSE QueryCheck(qs, i + 1)

SearchPreflight(qs, k) ==
    IF Len(qs) = 0 THEN Reject("empty_batch", 0)
    ELSE IF Len(qs) > SearchMaxBatch THEN Reject("batch_too_large", 0)
    ELSE IF k <= 0 \/ k > BatchTopKMax THEN Reject("top_k_out_of_range", 0)
    ELSE QueryCheck(qs, 1)

Preflight(kind, reqs, k) ==
    IF kind = "save" THEN SavePreflight(reqs) ELSE SearchPreflight(reqs, k)

\* ---- concurrency bound ----
MaxConcurrentUncapped(kind, n) == n

MaxConcurrent(kind, n) ==
    IF kind = "save" THEN Min(SaveMaxConcurrent, n) ELSE Min(SearchMaxConcurrent, n)

\* ---- what memory_service returns ----
\* SaveResponse is imported by the service and the handlers but its class is
\* not in api/schemas/memory.py.  The service builds its failure responses
\* without processing_time_ms (memory_service.py 107-111, 120-124), so the
\* field has a default; the sibling SearchResponse declares
\* processing_time_ms: Optional[float] = Field(None) (memory.py 102), and the
\* same default is taken here.
FailedResponseTime == NoneNum

EmotionChoices == { <<"joy">>, <<"joy", "trust">> }

\* outcomes of one service call: a success response, a failure response
\* (the service catches its own errors and answers success=False), or an
\* exception raised into the worker
SaveOutcomes ==
    { [kind |-> "ok", emotions |-> e, total_count |-> 0] : e \in EmotionChoices }
    \cup { [kind |-> k, emotions |-> <<>>, total_count |-> 0] : k \in {"failresp", "raise"} }

SearchOutcomes ==
    { [kind |-> "ok", emotions |-> <<>>, total_count |-> c] : c \in {0, 1} }
    \cup { [kind |-> k, emotions |-> <<>>, total_count |-> 0] : k \in {"failresp", "raise"} }

AllOk == [kind |-> "ok", emotions |-> <<"joy">>, total_count |-> 1]

ServiceOutcomes(kind, n) ==
    IF n > MaxN THEN { AllOk }
    ELSE IF kind = "save" THEN SaveOutcomes ELSE SearchOutcomes

\* ---- the workers' result dicts ----
NoResult ==
    [index |-> NoneNum, success |-> FALSE, emotions |-> <<>>,
     processing_time_ms |-> 0, total_count |-> 0, via |-> "none"]

\* batch.py 93-118 (save_single_memory): index is enumerate()'s 0-based index
SaveResult(index, out) ==
    IF out.kind = "ok" THEN
        [index |-> index, success |-> TRUE, emotions |-> out.emotions,
         processing_time_ms |-> 1, total_count |-> 0, via |-> "response"]
    ELSE IF out.kind = "failresp" THEN
        [index |-> index, success |-> FALSE, emotions |-> <<>>,
         processing_time_ms |-> FailedResponseTime, total_count |-> 0, via |-> "response"]
    ELSE
        [index |-> index, success |-> FALSE, emotions |-> <<>>,
         processing_time_ms |-> 0, total_count |-> 0, via |-> "except"]

\* batch.py 283-318 (search_single_query)
SearchResult(index, out) ==
    IF out.kind = "ok" THEN
        [index |-> index, success |-> TRUE, emotions |-> <<>>,
         processing_time_ms |-> 1, total_count |-> out.total_count, via |-> "response"]
    ELSE IF out.kind = "failresp" THEN
        [index |-> index, success |-> FALSE, emotions |-> <<>>,
         processing_time_ms |-> NoneNum, total_count |-> 0, via |-> "response"]
    ELSE
        [index |-> index, success |-> FALSE, emotions |-> <<>>,
         processing_time_ms |-> 0, total_count |-> 0, via |-> "except"]

\* the dict the worker of the task at position i returns
WorkerResult(kind, i, out) ==
    IF kind = "save" THEN SaveResult(i - 1, out) ELSE SearchResult(i - 1, out)

\* ---- fan-in ----
GatherAsCompleted(tr, ord) ==
    IF Len(ord) = Len(tr) THEN [k \in 1..Len(tr) |-> tr[ord[k]]] ELSE tr

\* asyncio.gather: the results come in the order of the awaitables passed,
\* whatever the order in which they completed
Gather(tr, ord) == tr

\* batch.py 144-145: successful_saves += 1
CountSuccess(results) == Cardinality({ i \in 1..Len(results) : results[i].success })

\* batch.py 146-147: failed_saves += 1
CountFailure(results) == Cardinality({ i \in 1..Len(results) : ~results[i].success })

\* results whose processing_time_ms is None
CountNoTime(results) ==
    Cardinality({ i \in 1..Len(results) : results[i].processing_time_ms = NoneNum })

\* len(set(...)) over the tags of the successful results
TotalEmotionsDistinct(results) ==
    Cardinality(UNION { { results[i].emotions[j] : j \in 1..Len(results[i].emotions) } :
                          i \in { x \in 1..Len(results) : results[x].success } })

\* batch.py 161-163
TotalEmotions(results) ==
    SumSeq([i \in 1..Len(results) |->
               IF results[i].success THEN Len(results[i].emotions) ELSE 0])

\* batch.py 128-186: every gathered result is a dict (the workers catch
\* Exception themselves), so the isinstance(result, Exception) branch is
\* not taken.  sum() over the processing times raises TypeError when one of
\* them is None; the handler's except Exception turns that into a 500.
SaveReport(results) ==
    IF CountNoTime(results) > 0
    THEN [status |-> 500, detail |-> "TypeError"]
    ELSE [status |-> 200,
          success |-> CountFailure(results) = 0,
          total |-> Len(results),
          successful |-> CountSuccess(results),
          failed |-> CountFailure(results),
          results |-> results,
          total_emotions_detected |-> TotalEmotions(results)]

\* batch.py 328-371: no summary, the processing times are not added up
SearchReport(results) ==
    [status |-> 200,
     success |-> CountFailure(results) = 0,
     total |-> Len(results),
     successful |-> CountSuccess(results),
     failed |-> CountFailure(results),
     results |-> results,
     total_emotions_detected |-> 0]

Report(kind, results) ==
    IF kind = "save" THEN SaveReport(results) ELSE SearchReport(results)

N == Len(requests)

InService == { i \in 1..N : wpc[i] = "inservice" }

\* ---- initial states: a batch has arrived ----
Batches ==
    { [kind |-> "save", reqs |-> r, top_k |-> 5] : r \in SeqsUpTo(SaveItems, MaxN) }
    \cup { [kind |-> "search", reqs |-> q, top_k |-> k] :
              q \in SeqsUpTo(QueryItems, MaxN), k \in TopKs }
    \cup { [kind |-> "save", reqs |-> Uniform(n, OkSave), top_k |-> 5] :
              n \in { SaveMaxConcurrent + 1, SaveMaxBatch + 1 } }
    \cup { [kind |-> "search", reqs |-> Uniform(n, StrText), top_k |-> 5] :
              n \in { SearchMaxConcurrent + 1, SearchMaxBatch + 1 } }

InitBatch ==
    \E b \in Batches :
        /\ batchKind = b.kind
        /\ requests = b.reqs
        /\ top_k = b.top_k
        /\ bpc = "received"
        /\ semaphore = 0
        /\ wpc = [i \in 1..Len(b.reqs) |-> "pending"]
        /\ taskResult = [i \in 1..Len(b.reqs) |-> NoResult]
        /\ svcCalls = [i \in 1..Len(b.reqs) |-> 0]
        /\ svcOutcome = [i \in 1..Len(b.reqs) |-> "none"]
        /\ order = <<>>
        /\ response = NoResponse

\* ---- the handler up to asyncio.gather ----
\* batch.py 58-84 / 241-274: the validation raised HTTPException(400)
PreflightReject ==
    /\ bpc = "received"
    /\ Preflight(batchKind, requests, top_k) # Pass
    /\ bpc' = "rejected"
    /\ response' = Preflight(batchKind, requests, top_k)
    /\ UNCHANGED <<batchKind, requests, top_k, semaphore, wpc, taskResult,
                   svcCalls, svcOutcome, order>>
    /\ UNCHANGED rlVars
    /\ UNCHANGED extVars

\* batch.py 86-126 / 276-326: the semaphore and the tasks are created
PreflightPass ==
    /\ bpc = "received"
    /\ Preflight(batchKind, requests, top_k) = Pass
    /\ bpc' = "running"
    /\ semaphore' = MaxConcurrent(batchKind, N)
    /\ UNCHANGED <<batchKind, requests, top_k, wpc, taskResult,
                   svcCalls, svcOutcome, order, response>>
    /\ UNCHANGED rlVars
    /\ UNCHANGED extVars

\* async with semaphore: the tasks start in list order and the waiters of
\* an asyncio.Semaphore are woken first-in first-out, so the slots are
\* taken in index order.  The worker then calls the service and is
\* suspended there.  (batch-search builds its SearchRequest first; top_k
\* passed the pre-flight, so the schema's ge=1, le=20 accepts it.)
Acquire(i) ==
    /\ bpc = "running"
    /\ wpc[i] = "pending"
    /\ \A j \in 1..(i - 1) : wpc[j] # "pending"
    /\ semaphore > 0
    /\ semaphore' = semaphore - 1
    /\ wpc' = [wpc EXCEPT ![i] = "inservice"]
    /\ svcCalls' = [svcCalls EXCEPT ![i] = @ + 1]
    /\ UNCHANGED <<batchKind, requests, top_k, bpc, taskResult, svcOutcome,
                   order, response>>
    /\ UNCHANGED rlVars
    /\ UNCHANGED extVars

\* the service call returns or raises; the worker builds its dict and
\* leaves the async with block, which releases the slot
ServiceReturns(i) ==
    /\ bpc = "running"
    /\ wpc[i] = "inservice"
    /\ \E out \in ServiceOutcomes(batchKind, N) :
          /\ taskResult' = [taskResult EXCEPT ![i] = WorkerResult(batchKind, i, out)]
          /\ svcOutcome' = [svcOutcome EXCEPT ![i] = out.kind]
    /\ wpc' = [wpc EXCEPT ![i] = "done"]
    /\ semaphore' = semaphore + 1
    /\ order' = IF N <= MaxN THEN Append(order, i) ELSE order
    /\ UNCHANGED <<batchKind, requests, top_k, bpc, svcCalls, response>>
    /\ UNCHANGED rlVars
    /\ UNCHANGED extVars

\* batch.py 126-186 / 326-371: gather has every result; the report
Aggregate ==
    /\ bpc = "running"
    /\ \A i \in 1..N : wpc[i] = "done"
    /\ bpc' = "done"
    /\ response' = Report(batchKind, Gather(taskResult, order))
    /\ UNCHANGED <<batchKind, requests, top_k, semaphore, wpc, taskResult,
                   svcCalls, svcOutcome, order>>
    /\ UNCHANGED rlVars
    /\ UNCHANGED extVars

NextBatch ==
    \/ PreflightReject
    \/ PreflightPass
    \/ \E i \in 1..N : Acquire(i)
    \/ \E i \in 1..N : ServiceReturns(i)
    \/ Aggregate

(***************************************************************************)
(* Part 2.  Rate limiter and its middleware                                *)
(*                                                                         *)
(* Time is counted in ticks, TicksPerSecond to the second; every           *)
(* time.time() read inside one uninterrupted run of the event loop gives   *)
(* the same value.  A dict is a function on the set of its keys.           *)
(***************************************************************************)

\* ---- bounds of the exploration ----
MaxRequests == 3

MaxInflight == 2

TicksPerSecond == 2

\* ---- program constants, in seconds ----
BurstWindow == 1

MinuteWindow == 60

HourWindow == 3600

CleanupInterval == 300

Sec(n) == n * TicksPerSecond

\* time between two arrivals
Advances == { 1, Sec(BurstWindow), Sec(MinuteWindow), Sec(HourWindow) }

\* ---- dicts ----
Get(d, k, dflt) == IF k \in DOMAIN d THEN d[k] ELSE dflt

Put(d, k, v) == [x \in (DOMAIN d) \cup {k} |-> IF x = k THEN v ELSE d[x]]

EmptyDict == [x \in {} |-> 0]

Last(s) == s[Len(s)]

\* ---- configuration ----
Policy(b, m, h) == [burst |-> b, rpm |-> m, rph |-> h]

\* endpoint_limits has the key "/save" (and others with the same shape);
\* every other path gets the defaults.  The caps come from the environment.
Configs ==
    { [enabled |-> TRUE, save |-> Policy(3, 2, 3), default |-> Policy(1, 2, 2)],
      [enabled |-> FALSE, save |-> Policy(3, 2, 3), default |-> Policy(1, 2, 2)] }

PublicEndpoints == { "/", "/health", "/docs", "/redoc", "/openapi.json" }

Paths == { "/save", "/memory/1", "/health" }

\* a caller: the API key auth_middleware accepted (or "" for none) and the
\* client address
Callers == { [api_key |-> "k1", ip |-> "10.0.0.1"], [api_key |-> "", ip |-> "10.0.0.1"] }

\* auth.py 116-124 and rate_limit.py 85-94: auth_middleware runs first and
\* always leaves auth_result["rate_limit_key"]
RateLimitKey(c) ==
    IF c.api_key # "" THEN <<"api_key", c.api_key>> ELSE <<"ip", c.ip>>

\* rate_limit.py 96-112: exact match, then patterns ending in "*" (the
\* table has none), then the defaults
GetEndpointLimits(cfg, endpoint) ==
    IF endpoint = "/save" THEN cfg.save ELSE cfg.default

\* ---- _check_rate_limit ----
CountAll(times, cutoff) == Len(times)

\* sum(1 for t in request_times if t > cutoff)
CountAfter(times, cutoff) == Cardinality({ i \in 1..Len(times) : times[i] > cutoff })

RECURSIVE FirstAfter(_, _, _)
\* next((t for t in request_times if t > cutoff), now)
FirstAfter(times, cutoff, dflt) ==
    IF times = <<>> THEN dflt
    ELSE IF Head(times) > cutoff THEN Head(times)
    ELSE FirstAfter(Tail(times), cutoff, dflt)

Denied(error, limit, reset_in, rc, bc) ==
    [allowed |-> FALSE, error |-> error, limit |-> limit, reset_in |-> reset_in,
     minute_requests |-> 0, hour_requests |-> 0, burst_requests |-> 0,
     rc |-> rc, bc |-> bc]

WindowChecksHourFirst(key, limits, t, current_burst, rc, bc) ==
    LET times == rc[key]
        minute_requests == CountAfter(times, t - Sec(MinuteWindow))
        hour_requests == CountAfter(times, t - Sec(HourWindow))
    IN  IF hour_requests >= limits.rph THEN
            Denied("hour_limit_exceeded", limits.rph,
                   Sec(HourWindow) - (t - FirstAfter(times, t - Sec(HourWindow), t)),
                   rc, bc)
        ELSE IF minute_requests >= limits.rpm THEN
            Denied("minute_limit_exceeded", limits.rpm,
                   Sec(MinuteWindow) - (t - FirstAfter(times, t - Sec(MinuteWindow), t)),
                   rc, bc)
        ELSE
            [allowed |-> TRUE, error |-> "", limit |-> 0, reset_in |-> 0,
             minute_requests |-> minute_requests, hour_requests |-> hour_requests,
             burst_requests |-> current_burst, rc |-> rc, bc |-> bc]

\* rate_limit.py 172-202, entered with the state the burst check left
WindowChecks(key, limits, t, current_burst, rc, bc) ==
    LET times == rc[key]
        minute_requests == CountAfter(times, t - Sec(MinuteWindow))
        hour_requests == CountAfter(times, t - Sec(HourWindow))
    IN  IF minute_requests >= limits.rpm THEN
            Denied("minute_limit_exceeded", limits.rpm,
                   Sec(MinuteWindow) - (t - FirstAfter(times, t - Sec(MinuteWindow), t)),
                   rc, bc)
        ELSE IF hour_requests >= limits.rph THEN
            Denied("hour_limit_exceeded", limits.rph,
                   Sec(HourWindow) - (t - FirstAfter(times, t - Sec(HourWindow), t)),
                   rc, bc)
        ELSE
            [allowed |-> TRUE, error |-> "", limit |-> 0, reset_in |-> 0,
             minute_requests |-> minute_requests, hour_requests |-> hour_requests,
             burst_requests |-> current_burst, rc |-> rc, bc |-> bc]

BurstNeverElapsed(times, t) == FALSE

\* rate_limit.py 163: request_times and (now - request_times[-1]) >= 1.0
BurstElapsed(times, t) == times # <<>> /\ (t - Last(times)) >= Sec(BurstWindow)

\* rate_limit.py 148-202.  The result carries the dicts as the call leaves
\* them: a saturated burst counter that is reset stays reset even when a
\* later cap denies, and request_counts[key] (a defaultdict) creates the
\* key's empty deque.
CheckRateLimit(key, limits, t, rc, bc) ==
    LET current_burst == Get(bc, key, 0)
        times == Get(rc, key, <<>>)
        rcTouched == IF key \in DOMAIN rc THEN rc ELSE Put(rc, key, <<>>)
    IN  IF current_burst >= limits.burst THEN
            IF BurstElapsed(times, t)
            THEN WindowChecks(key, limits, t, current_burst, rcTouched, Put(bc, key, 0))
            ELSE Denied("burst_limit_exceeded", limits.burst,
                        IF times # <<>> THEN Sec(BurstWindow) - (t - Last(times))
                                        ELSE Sec(BurstWindow),
                        rc, bc)
        ELSE WindowChecks(key, limits, t, current_burst, rcTouched, bc)

\* ---- _cleanup_old_requests ----
RECURSIVE DropOld(_, _)
\* while request_times and request_times[0] < cutoff_time: popleft()
DropOld(times, cutoff) ==
    IF times # <<>> /\ Head(times) < cutoff THEN DropOld(Tail(times), cutoff) ELSE times

CleanupDue(t, lc) == t - lc >= Sec(CleanupInterval)

KeptKeys(rc, t) == { k \in DOMAIN rc : DropOld(rc[k], t - Sec(HourWindow)) # <<>> }

\* rate_limit.py 114-146, when the interval has elapsed
CleanedCounts(rc, t) == [k \in KeptKeys(rc, t) |-> DropOld(rc[k], t - Sec(HourWindow))]

\* the burst counters of the removed keys are left behind
CleanedBurstsKept(rc, bc, t) == bc

\* rate_limit.py 137-140: del self.burst_counts[key] with the emptied key
CleanedBursts(rc, bc, t) ==
    [k \in (DOMAIN bc) \ ((DOMAIN rc) \ KeptKeys(rc, t)) |-> bc[k]]

\* ---- check_rate_limit as a step of the limiter's state ----
NoDecision ==
    [seq |-> 0, key |-> <<"", "">>, endpoint |-> "", time |-> 0,
     limits |-> Policy(0, 0, 0),
     pre_times |-> <<>>, pre_burst |-> 0, allowed |-> TRUE, error |-> "", reset_in |-> 0,
     minute_requests |-> 0, hour_requests |-> 0]

Decision(c, path, t) ==
    CheckRateLimit(RateLimitKey(c), GetEndpointLimits(config, path), t,
                   request_counts, burst_counts)

DecisionRecord(c, path, t, d) ==
    [seq |-> arrivals + 1, key |-> RateLimitKey(c), endpoint |-> path, time |-> t,
     limits |-> GetEndpointLimits(config, path),
     pre_times |-> Get(request_counts, RateLimitKey(c), <<>>),
     pre_burst |-> Get(burst_counts, RateLimitKey(c), 0),
     allowed |-> d.allowed, error |-> d.error, reset_in |-> d.reset_in,
     minute_requests |-> d.minute_requests, hour_requests |-> d.hour_requests]

\* rate_limit.py 220-226: a disabled limiter and the public endpoints
Bypassed(path) == ~config.enabled \/ path \in PublicEndpoints

BypassReason == IF config.enabled THEN "public_endpoint" ELSE "disabled"

RecordNothing(rc, key, t) == rc

\* rate_limit.py 209: request_counts[key].append(now)
RecordRequest(rc, key, t) == Put(rc, key, Append(Get(rc, key, <<>>), t))

BumpBurstSkipped(bc, key) == bc

\* rate_limit.py 212
BumpBurst(bc, key) == Put(bc, key, Get(bc, key, 0) + 1)

\* ---- two more limiters, for comparison ----
\* rate_limit.py 228-257 and 204-215 on a limiter whose dictionaries are
\* lim.rc and lim.bc and whose last pass was at lim.lc: the check, then for
\* an admitted request its recording and, where this limiter runs its
\* passes, the pass
LimiterAfter(key, limits, t, lim, passes) ==
    LET d == CheckRateLimit(key, limits, t, lim.rc, lim.bc)
        rc1 == RecordRequest(d.rc, key, t)
        bc1 == BumpBurst(d.bc, key)
    IN  IF ~d.allowed
        THEN [rc |-> d.rc, bc |-> d.bc, lc |-> lim.lc,
              allowed |-> FALSE, error |-> d.error]
        ELSE IF passes /\ CleanupDue(t, lim.lc)
        THEN [rc |-> CleanedCounts(rc1, t), bc |-> CleanedBursts(rc1, bc1, t), lc |-> t,
              allowed |-> TRUE, error |-> ""]
        ELSE [rc |-> rc1, bc |-> bc1, lc |-> lim.lc, allowed |-> TRUE, error |-> ""]

\* a limiter as RateLimiter.__init__ leaves it (rate_limit.py 33-36)
NewLimiter ==
    [rc |-> EmptyDict, bc |-> EmptyDict, lc |-> 0, allowed |-> TRUE, error |-> ""]

\* the identity whose decisions are compared
Watched == <<"api_key", "k1">>

\* unclean: a limiter of the same configuration that receives every request
\* this one receives and never runs a cleanup pass.  alone: a limiter of the
\* same configuration, cleanup included, that receives the requests of the
\* watched identity and nothing else.  removed: the identities a cleanup
\* pass of this limiter has deleted so far.
NoTwins == [unclean |-> NewLimiter, alone |-> NewLimiter, removed |-> {}]

\* the twins after this limiter has decided the request of key at time t
TwinsAfter(key, limits, t) ==
    LET d == CheckRateLimit(key, limits, t, request_counts, burst_counts)
        rc1 == RecordRequest(d.rc, key, t)
    IN  [unclean |-> LimiterAfter(key, limits, t, twins.unclean, FALSE),
         alone |-> IF key = Watched
                   THEN LimiterAfter(key, limits, t, twins.alone, TRUE)
                   ELSE twins.alone,
         removed |-> IF d.allowed /\ CleanupDue(t, last_cleanup)
                     THEN twins.removed \cup ((DOMAIN rc1) \ KeptKeys(rc1, t))
                     ELSE twins.removed]

LimiterBypass(dt) ==
    /\ arrivals' = arrivals + 1
    /\ now' = now + dt
    /\ UNCHANGED <<config, request_counts, burst_counts, last_cleanup,
                   lastDecision, admitLog, twins>>

\* rate_limit.py 228-242 with _record_request (204-215) and the cleanup
\* it ends with
LimiterAdmit(c, path, dt) ==
    LET t == now + dt
        key == RateLimitKey(c)
        d == Decision(c, path, t)
        rc1 == RecordRequest(d.rc, key, t)
        bc1 == BumpBurst(d.bc, key)
    IN  /\ ~Bypassed(path)
        /\ d.allowed
        /\ arrivals' = arrivals + 1
        /\ now' = t
        /\ IF CleanupDue(t, last_cleanup)
           THEN /\ request_counts' = CleanedCounts(rc1, t)
                /\ burst_counts' = CleanedBursts(rc1, bc1, t)
                /\ last_cleanup' = t
           ELSE /\ request_counts' = rc1
                /\ burst_counts' = bc1
                /\ UNCHANGED last_cleanup
        /\ lastDecision' = DecisionRecord(c, path, t, d)
        /\ admitLog' = Append(admitLog, <<key, t, path>>)
        /\ twins' = TwinsAfter(key, GetEndpointLimits(config, path), t)
        /\ UNCHANGED config

\* rate_limit.py 243-257
LimiterDeny(c, path, dt) ==
    LET t == now + dt
        d == Decision(c, path, t)
    IN  /\ ~Bypassed(path)
        /\ ~d.allowed
        /\ arrivals' = arrivals + 1
        /\ now' = t
        /\ request_counts' = d.rc
        /\ burst_counts' = d.bc
        /\ lastDecision' = DecisionRecord(c, path, t, d)
        /\ twins' = TwinsAfter(RateLimitKey(c), GetEndpointLimits(config, path), t)
        /\ UNCHANGED <<config, last_cleanup, admitLog>>

\* ---- the limiter alone: check_rate_limit called request after request ----
CheckBypassed(c, path, dt) ==
    /\ arrivals < MaxRequests
    /\ Bypassed(path)
    /\ LimiterBypass(dt)
    /\ UNCHANGED <<inflight, lastOutcome>>
    /\ UNCHANGED batchVars
    /\ UNCHANGED extVars

CheckAllowed(c, path, dt) ==
    /\ arrivals < MaxRequests
    /\ LimiterAdmit(c, path, dt)
    /\ UNCHANGED <<inflight, lastOutcome>>
    /\ UNCHANGED batchVars
    /\ UNCHANGED extVars

CheckDenied(c, path, dt) ==
    /\ arrivals < MaxRequests
    /\ LimiterDeny(c, path, dt)
    /\ UNCHANGED <<inflight, lastOutcome>>
    /\ UNCHANGED batchVars
    /\ UNCHANGED extVars

NextLimiter ==
    \/ \E c \in Callers, path \in Paths, dt \in Advances : CheckBypassed(c, path, dt)
    \/ \E c \in Callers, path \in Paths, dt \in Advances : CheckAllowed(c, path, dt)
    \/ \E c \in Callers, path \in Paths, dt \in Advances : CheckDenied(c, path, dt)

\* ---- requests inside the middleware ----
\* a request suspended in call_next: which call_next it waits in
\* ("dispatched": line 299, "failopen": line 343), how many times it was
\* handed downstream, and what the limiter had answered for it
Suspended(phase, dispatches, gate) ==
    [phase |-> phase, dispatches |-> dispatches, gate |-> gate]

CanEnter == BagCardinality(inflight) < MaxInflight

Enter(r) == inflight (+) SetToBag({r})

Leave(r) == inflight (-) SetToBag({r})

NoOutcome ==
    [kind |-> "none", status |-> 0, retry_after |-> 0, error |-> "",
     gate |-> "none", dispatches |-> 0]

InitLimiter ==
    /\ now = 0
    /\ config \in Configs
    /\ request_counts = EmptyDict
    /\ burst_counts = EmptyDict
    /\ last_cleanup = 0
    /\ inflight = EmptyBag
    /\ arrivals = 0
    /\ lastDecision = NoDecision
    /\ admitLog = <<>>
    /\ twins = NoTwins
    /\ lastOutcome = NoOutcome

\* ---- rate_limit_middleware, from its entry to its first suspension ----
\* time between two arrivals at the middleware
MwAdvances == { 0, Sec(BurstWindow) }

EnterLimiterFaultRejected(c, path, dt) ==
    /\ arrivals < MaxRequests
    /\ CanEnter
    /\ LimiterBypass(dt)
    /\ lastOutcome' = [kind |-> "exception", status |-> 500, retry_after |-> 0,
                       error |-> "", gate |-> "fault", dispatches |-> 0]
    /\ UNCHANGED inflight
    /\ UNCHANGED batchVars
    /\ UNCHANGED extVars

\* check_rate_limit raised an unexpected error before it decided: the
\* except Exception branch (rate_limit.py 333-343) awaits call_next
EnterLimiterFault(c, path, dt) ==
    /\ arrivals < MaxRequests
    /\ CanEnter
    /\ LimiterBypass(dt)
    /\ inflight' = Enter(Suspended("failopen", 1, "fault"))
    /\ UNCHANGED lastOutcome
    /\ UNCHANGED batchVars
    /\ UNCHANGED extVars

\* rate_limit.py 280, 298-299 for a request the limiter does not count
EnterBypassed(c, path, dt) ==
    /\ arrivals < MaxRequests
    /\ CanEnter
    /\ Bypassed(path)
    /\ LimiterBypass(dt)
    /\ inflight' = Enter(Suspended("dispatched", 1, BypassReason))
    /\ UNCHANGED lastOutcome
    /\ UNCHANGED batchVars
    /\ UNCHANGED extVars

\* rate_limit.py 280, 298-299: allowed and recorded; call_next is awaited
EnterAdmitted(c, path, dt) ==
    /\ arrivals < MaxRequests
    /\ CanEnter
    /\ LimiterAdmit(c, path, dt)
    /\ inflight' = Enter(Suspended("dispatched", 1, "allowed"))
    /\ UNCHANGED lastOutcome
    /\ UNCHANGED batchVars
    /\ UNCHANGED extVars

\* "Retry-After": str(int(reset_in)), reset_in a float number of seconds
RetryAfterHeader(reset_in) == reset_in \div TicksPerSecond

EnterDeniedDispatched(c, path, dt) ==
    /\ arrivals < MaxRequests
    /\ CanEnter
    /\ LimiterDeny(c, path, dt)
    /\ inflight' = Enter(Suspended("dispatched", 1, "denied"))
    /\ UNCHANGED lastOutcome
    /\ UNCHANGED batchVars
    /\ UNCHANGED extVars

\* rate_limit.py 282-296, 322-331: denied; HTTPException(429) is raised
\* inside the try before call_next, caught by except HTTPException and
\* re-raised; auth_middleware (auth.py 239-248) and error_handler
\* (middleware.py 117-119) re-raise it in their turn
EnterDenied(c, path, dt) ==
    /\ arrivals < MaxRequests
    /\ LimiterDeny(c, path, dt)
    /\ lastOutcome' = [kind |-> "http_exception", status |-> 429,
                       retry_after |-> RetryAfterHeader(lastDecision'.reset_in),
                       error |-> lastDecision'.error, gate |-> "denied",
                       dispatches |-> 0]
    /\ UNCHANGED inflight
    /\ UNCHANGED batchVars
    /\ UNCHANGED extVars

\* ---- the rest of the middleware: call_next comes back ----
HandlerStatuses == { 200, 500 }

Finished(kind, status, r) ==
    [kind |-> kind, status |-> status, retry_after |-> 0, error |-> "",
     gate |-> r.gate, dispatches |-> r.dispatches]

\* rate_limit.py 299-320 (343 for the fail-open call): a response comes back
DownstreamResponds(r, st) ==
    /\ BagIn(r, inflight)
    /\ inflight' = Leave(r)
    /\ lastOutcome' = Finished("response", st, r)
    /\ UNCHANGED <<now, config, request_counts, burst_counts, last_cleanup,
                   arrivals, lastDecision, admitLog, twins>>
    /\ UNCHANGED batchVars
    /\ UNCHANGED extVars

\* call_next raised HTTPException (an inner middleware's 413): re-raised
\* by rate_limit.py 322-331, or propagated from the call at line 343
DownstreamRaisesHTTP(r) ==
    /\ BagIn(r, inflight)
    /\ inflight' = Leave(r)
    /\ lastOutcome' = Finished("http_exception", 413, r)
    /\ UNCHANGED <<now, config, request_counts, burst_counts, last_cleanup,
                   arrivals, lastDecision, admitLog, twins>>
    /\ UNCHANGED batchVars
    /\ UNCHANGED extVars

\* call_next at line 299 raised another Exception: the call is inside the
\* try, so the except Exception branch awaits call_next(request) again
DownstreamRaisesInTry(r) ==
    /\ BagIn(r, inflight)
    /\ r.phase = "dispatched"
    /\ inflight' = Leave(r) (+) SetToBag({Suspended("failopen", r.dispatches + 1, r.gate)})
    /\ UNCHANGED <<now, config, request_counts, burst_counts, last_cleanup,
                   arrivals, lastDecision, admitLog, twins, lastOutcome>>
    /\ UNCHANGED batchVars
    /\ UNCHANGED extVars

\* the call_next of the except branch raised: nothing here catches it
DownstreamRaisesAgain(r) ==
    /\ BagIn(r, inflight)
    /\ r.phase = "failopen"
    /\ inflight' = Leave(r)
    /\ lastOutcome' = Finished("exception", 500, r)
    /\ UNCHANGED <<now, config, request_counts, burst_counts, last_cleanup,
                   arrivals, lastDecision, admitLog, twins>>
    /\ UNCHANGED batchVars
    /\ UNCHANGED extVars

NextMiddleware ==
    \/ \E c \in Callers, path \in Paths, dt \in MwAdvances : EnterLimiterFault(c, path, dt)
    \/ \E c \in Callers, path \in Paths, dt \in MwAdvances : EnterBypassed(c, path, dt)
    \/ \E c \in Callers, path \in Paths, dt \in MwAdvances : EnterAdmitted(c, path, dt)
    \/ \E c \in Callers, path \in Paths, dt \in MwAdvances : EnterDenied(c, path, dt)
    \/ \E r \in BagToSet(inflight), st \in HandlerStatuses : DownstreamResponds(r, st)
    \/ \E r \in BagToSet(inflight) : DownstreamRaisesHTTP(r)
    \/ \E r \in BagToSet(inflight) : DownstreamRaisesInTry(r)
    \/ \E r \in BagToSet(inflight) : DownstreamRaisesAgain(r)

(***************************************************************************)
(* Part 3: API-key authentication in front of the rate limiter             *)
(* (src/api/middleware/auth.py, src/api/app.py)                            *)
(***************************************************************************)

\* APIKeyAuth.allowed_api_keys
AllowedApiKeys == { "k1" }

\* what _extract_api_key finds on a request: nothing, a key that is not
\* allowed, an allowed key
Credentials == { "", "bad", "k1" }

\* auth.py 138-144, matched with `request.url.path in public_endpoints`
AuthPublicEndpoints == { "/", "/health", "/docs", "/redoc", "/openapi.json" }

\* include_router(router, prefix=...) serves a route at prefix + path
RoutePath(prefix, path) == prefix \o path

\* app.py 96 with health.py 14 and 26: health_check and get_stats
HealthRoutes == { RoutePath("/health", "/"), RoutePath("/health", "/stats") }

\* app.py 108, app.py 96 and FastAPI(docs_url="/docs"): where the root, the
\* health check and the docs are served
ServedPublic == { "/", RoutePath("/health", "/"), "/docs" }

\* the requests of this part
AuthPaths == ServedPublic \cup { "/health", "/save" }

AuthRequests == [api_key : Credentials, ip : { "10.0.0.1" }]

\* auth.py 102-114 (allowed_api_keys holds no "sha256:" entry)
ValidateApiKey(api_key) == api_key # "" /\ api_key \in AllowedApiKeys

\* auth.py 116-124
AuthRateLimitKey(ip, api_key) ==
    IF api_key # "" THEN <<"api_key", api_key>> ELSE <<"ip", ip>>

AuthResult(ok, method, st, key) ==
    [authenticated |-> ok, auth_method |-> method, status |-> st, rate_limit_key |-> key]

\* auth.py 126-195; status 401 stands for the HTTPException it raises
AuthenticateRequest(enabled, path, req) ==
    IF ~enabled
    THEN AuthResult(TRUE, "disabled", 200, AuthRateLimitKey(req.ip, ""))
    ELSE IF path \in AuthPublicEndpoints
    THEN AuthResult(TRUE, "public_endpoint", 200, AuthRateLimitKey(req.ip, ""))
    ELSE IF req.api_key = ""
    THEN AuthResult(FALSE, "missing", 401, <<"", "">>)
    ELSE IF ~ValidateApiKey(req.api_key)
    THEN AuthResult(FALSE, "invalid", 401, <<"", "">>)
    ELSE AuthResult(TRUE, "api_key", 200, AuthRateLimitKey(req.ip, req.api_key))

\* the caller the rate limiter sees: request.state.auth_result carries the
\* key authenticate_request chose
Authenticated(path, req) ==
    [api_key |-> IF AuthenticateRequest(auth_enabled, path, req).auth_method = "api_key"
                 THEN req.api_key ELSE "",
     ip |-> req.ip]

NoAuth ==
    [seq |-> 0, path |-> "", api_key |-> "", status |-> 0, auth_method |-> "",
     limiter |-> "none"]

AuthRecord(path, req, limiter) ==
    [seq |-> arrivals + 1, path |-> path, api_key |-> req.api_key,
     status |-> AuthenticateRequest(auth_enabled, path, req).status,
     auth_method |-> AuthenticateRequest(auth_enabled, path, req).auth_method,
     limiter |-> limiter]

\* auth_middleware 210-247: authenticate_request raised 401, re-raised;
\* call_next is not reached and the limiter never sees the request
AuthRejected(req, path, dt) ==
    /\ arrivals < MaxRequests
    /\ ~AuthenticateRequest(auth_enabled, path, req).authenticated
    /\ LimiterBypass(dt)
    /\ lastAuth' = AuthRecord(path, req, "none")
    /\ UNCHANGED <<auth_enabled, inflight, lastOutcome>>
    /\ UNCHANGED svcVars
    /\ UNCHANGED batchVars

\* authenticated, then check_rate_limit returns at rate_limit.py 220-226
AuthThenBypassed(req, path, dt) ==
    /\ arrivals < MaxRequests
    /\ AuthenticateRequest(auth_enabled, path, req).authenticated
    /\ Bypassed(path)
    /\ LimiterBypass(dt)
    /\ lastAuth' = AuthRecord(path, req, "bypassed")
    /\ UNCHANGED <<auth_enabled, inflight, lastOutcome>>
    /\ UNCHANGED svcVars
    /\ UNCHANGED batchVars

\* authenticated, then counted and allowed by check_rate_limit
AuthThenAdmitted(req, path, dt) ==
    /\ arrivals < MaxRequests
    /\ AuthenticateRequest(auth_enabled, path, req).authenticated
    /\ LimiterAdmit(Authenticated(path, req), path, dt)
    /\ lastAuth' = AuthRecord(path, req, "admitted")
    /\ UNCHANGED <<auth_enabled, inflight, lastOutcome>>
    /\ UNCHANGED svcVars
    /\ UNCHANGED batchVars

\* authenticated, then denied by check_rate_limit
AuthThenDenied(req, path, dt) ==
    /\ arrivals < MaxRequests
    /\ AuthenticateRequest(auth_enabled, path, req).authenticated
    /\ LimiterDeny(Authenticated(path, req), path, dt)
    /\ lastAuth' = AuthRecord(path, req, "denied")
    /\ UNCHANGED <<auth_enabled, inflight, lastOutcome>>
    /\ UNCHANGED svcVars
    /\ UNCHANGED batchVars

NextAuth ==
    \/ \E req \in AuthRequests, path \in AuthPaths, dt \in Advances : AuthRejected(req, path, dt)
    \/ \E req \in AuthRequests, path \in AuthPaths, dt \in Advances : AuthThenBypassed(req, path, dt)
    \/ \E req \in AuthRequests, path \in AuthPaths, dt \in Advances : AuthThenAdmitted(req, path, dt)
    \/ \E req \in AuthRequests, path \in AuthPaths, dt \in Advances : AuthThenDenied(req, path, dt)

(***************************************************************************)
(* Part 4: the memory service, its summarizer and its store                *)
(* (src/api/endpoints/save.py, search.py, src/services/memory_service.py,  *)
(*  src/core/llm, src/infrastructure/db)                                   *)
(***************************************************************************)

\* ---- bounds of the exploration ----
\* requests handled one after the other
MaxOps == 2

\* segments of a summarizer response
MaxSegments == 3

\* ---- program constants ----
MessageMaxLen == 10000

SingleTopKMax == 100

\* schemas/memory.py 38: top_k: int = Field(5, ge=1, le=20)
SchemaTopKMax == 20

EmotionCap == 5

MockEmotionCap == 3

SummaryMinLen == 10

SummaryMaxLen == 300

FallbackLen == 200

\* ---- emotions ----
\* six of the members of the Emotion enum, in the order of the class body
EmotionOrder == <<"JOY", "HAPPINESS", "AMUSEMENT", "ANXIETY", "SHAME", "SHYNESS">>

Emotions == { EmotionOrder[i] : i \in 1..Len(EmotionOrder) }

\* Emotion.value, transliterated
EmotionValue(e) ==
    CASE e = "JOY" -> "yorokobi"
      [] e = "HAPPINESS" -> "shiawase"
      [] e = "AMUSEMENT" -> "tanoshisa"
      [] e = "ANXIETY" -> "fuan"
      [] e = "SHAME" -> "haji"
      [] e = "SHYNESS" -> "hazukashisa"

\* len(e.value) of the original strings
ValueLen(e) ==
    CASE e = "JOY" -> 2
      [] e = "HAPPINESS" -> 2
      [] e = "AMUSEMENT" -> 3
      [] e = "ANXIETY" -> 2
      [] e = "SHAME" -> 1
      [] e = "SHYNESS" -> 5

\* `a.value in b.value`: the value of SHAME is the first character of the
\* value of SHYNESS
ValueWithin(a, b) == a = b \/ (a = "SHAME" /\ b = "SHYNESS")

\* the members whose value occurs in a text that mentions the members of S
FoundIn(S) == { e \in Emotions : \E m \in S : ValueWithin(e, m) }

Reverse(s) == [i \in 1..Len(s) |-> s[Len(s) + 1 - i]]

\* iteration orders a set of Emotion members can have: str hashes depend on
\* the interpreter's hash seed
HashOrders == { EmotionOrder, Reverse(EmotionOrder) }

RECURSIVE Keep(_, _)
\* the elements of seq that are in S, in the order of seq
Keep(seq, S) ==
    IF seq = <<>> THEN <<>>
    ELSE (IF Head(seq) \in S THEN <<Head(seq)>> ELSE <<>>) \o Keep(Tail(seq), S)

Take(seq, n) == SubSeq(seq, 1, Min(n, Len(seq)))

Range(seq) == { seq[i] : i \in 1..Len(seq) }

\* list(set(xs))
ListOfSet(xs, ord) == Keep(ord, Range(xs))

\* base.py 66-77: the members found in the text in enum order, list(set()),
\* the first five
ExtractEmotions(mentioned, ord) ==
    Take(ListOfSet(Keep(EmotionOrder, FoundIn(mentioned)), ord), EmotionCap)

\* ---- the text of a summarizer response ----
\* A response is a sequence of segments.  A segment may start with the
\* summary marker or the emotion marker (either spelling), continues with a
\* body of len characters naming the emotions emos, and is followed by sep:
\* a newline character, or the two characters backslash and n.
MarkerLen == 3

Body(n, S) == [len |-> n, emos |-> S]

Bodies ==
    { Body(0, {}), Body(4, {}), Body(20, {}), Body(301, {}),
      Body(2, {"JOY"}), Body(20, Emotions) }

Segments == [marker : { "none", "summary", "emotions" }, body : Bodies,
             sep : { "newline", "literal" }]

\* what follows the last segment is not part of the response
Responses ==
    UNION { { r \in [1..k -> Segments] : r[k].sep = "newline" } : k \in 1..MaxSegments }

Seg(marker, body, sep) == [marker |-> marker, body |-> body, sep |-> sep]

\* the responses the saves of Part 4 are explored with: a summary and an
\* emotion line; the same with the emotion named again on a further line;
\* an emotion line and then the summary; free
\* text naming every emotion; a summary without emotions; a summary that is
\* too long; an emotion line alone
ServiceResponses ==
    { <<Seg("summary", Body(20, {}), "literal"),
        Seg("emotions", Body(20, Emotions), "newline")>>,
      <<Seg("summary", Body(20, {}), "literal"),
        Seg("emotions", Body(2, {"JOY"}), "literal"),
        Seg("none", Body(2, {"JOY"}), "newline")>>,
      <<Seg("emotions", Body(2, {"JOY"}), "literal"),
        Seg("summary", Body(20, {}), "newline")>>,
      <<Seg("none", Body(20, Emotions), "newline")>>,
      <<Seg("summary", Body(20, {}), "newline")>>,
      <<Seg("summary", Body(301, {}), "literal"),
        Seg("emotions", Body(2, {"JOY"}), "newline")>>,
      <<Seg("emotions", Body(2, {"JOY"}), "newline")>> }

SepLen(seg) == IF seg.sep = "literal" THEN 2 ELSE 1

SegLen(seg) == (IF seg.marker = "none" THEN 0 ELSE MarkerLen) + seg.body.len

RECURSIVE RawLen(_)
\* len(response): the separator after the last segment is not part of it
RawLen(resp) ==
    IF resp = <<>> THEN 0
    ELSE SegLen(Head(resp)) + (IF Len(resp) > 1 THEN SepLen(Head(resp)) ELSE 0)
         + RawLen(Tail(resp))

RECURSIVE AllEmos(_)
AllEmos(segs) ==
    IF segs = <<>> THEN {} ELSE Head(segs).body.emos \cup AllEmos(Tail(segs))

RECURSIVE SplitLines(_, _)
\* claude.py 127: response.strip().split("\\n") splits at backslash-n, not
\* at newline characters; a line is the run of segments between two splits
SplitLines(resp, cur) ==
    IF resp = <<>> THEN <<cur>>
    ELSE IF Head(resp).sep = "literal" /\ Len(resp) > 1
    THEN <<Append(cur, Head(resp))>> \o SplitLines(Tail(resp), <<>>)
    ELSE SplitLines(Tail(resp), Append(cur, Head(resp)))

EmptySeg(seg) == seg.marker = "none" /\ seg.body.len = 0

RECURSIVE StripLeft(_)
StripLeft(line) ==
    IF line # <<>> /\ EmptySeg(Head(line)) THEN StripLeft(Tail(line)) ELSE line

\* line.strip(): empty segments at either end are whitespace
StripLine(line) == Reverse(StripLeft(Reverse(StripLeft(line))))

RECURSIVE LineLenWithout(_, _)
\* len(line.replace(marker, "")), newlines inside the line included
LineLenWithout(line, marker) ==
    IF line = <<>> THEN 0
    ELSE (IF Head(line).marker \in { "none", marker } THEN 0 ELSE MarkerLen)
         + Head(line).body.len + (IF Len(line) > 1 THEN 1 ELSE 0)
         + LineLenWithout(Tail(line), marker)

LineStartsWith(line, marker) == line # <<>> /\ Head(line).marker = marker

NoParse == [summary |-> 0, emotions |-> <<>>, section |-> "none"]

\* claude.py 134-159: one turn of the loop over the lines.  The summary is
\* kept by its length.
ParseLine(st, raw, ord) ==
    LET line == StripLine(raw)
    IN  IF LineStartsWith(line, "summary")
        THEN [st EXCEPT !.section = "summary",
                        !.summary = IF LineLenWithout(line, "summary") > 0
                                    THEN LineLenWithout(line, "summary") ELSE @]
        ELSE IF LineStartsWith(line, "emotions")
        THEN [st EXCEPT !.section = "emotions",
                        !.emotions = IF LineLenWithout(line, "emotions") > 0
                                     THEN @ \o ExtractEmotions(AllEmos(line), ord)
                                     ELSE @]
        ELSE IF st.section = "summary" /\ line # <<>>
        THEN [st EXCEPT !.summary = IF @ = 0 THEN LineLenWithout(line, "none")
                                    ELSE @ + 1 + LineLenWithout(line, "none")]
        ELSE IF st.section = "emotions" /\ line # <<>>
        THEN [st EXCEPT !.emotions = @ \o ExtractEmotions(AllEmos(line), ord)]
        ELSE st

RECURSIVE ParseLines(_, _, _)
ParseLines(st, lines, ord) ==
    IF lines = <<>> THEN st
    ELSE ParseLines(ParseLine(st, Head(lines), ord), Tail(lines), ord)

Str(n) == [len |-> n, blank |-> n = 0]

\* claude.py 125-166
ParseResponse(resp, ord) ==
    LET st == ParseLines(NoParse, SplitLines(resp, <<>>), ord)
    IN  IF st.summary = 0 /\ st.emotions = <<>>
        THEN [summary |-> Str(Min(FallbackLen, RawLen(resp))),
              emotions |-> ExtractEmotions(AllEmos(resp), ord)]
        ELSE [summary |-> Str(st.summary), emotions |-> st.emotions]

\* base.py 79-90
ValidateResponseAny(summary, emotions) == TRUE

ValidateResponse(summary, emotions) ==
    /\ ~(summary.len = 0 \/ Blank(summary) \/ summary.len < SummaryMinLen)
    /\ emotions # <<>>
    /\ ~(summary.len > SummaryMaxLen)

\* ---- MockLLM ----
\* keywords of emotion_patterns, transliterated, in the order of the dict
MockKeywordOrder == <<"ureshii", "tanoshii", "hazukashii">>

MockKeywords == Range(MockKeywordOrder)

\* mock.py 22-33
MockPattern(k) ==
    CASE k = "ureshii" -> <<"JOY", "HAPPINESS">>
      [] k = "tanoshii" -> <<"AMUSEMENT", "JOY">>
      [] k = "hazukashii" -> <<"SHYNESS", "SHAME">>

RECURSIVE MockMatches(_, _)
\* mock.py 92-95: emotions.extend(emotion_list) for every keyword found
MockMatches(keys, kws) ==
    IF keys = <<>> THEN <<>>
    ELSE (IF Head(keys) \in kws THEN MockPattern(Head(keys)) ELSE <<>>)
         \o MockMatches(Tail(keys), kws)

\* mock.py 88-101
ExtractMockEmotions(kws, ord) ==
    Take(ListOfSet(MockMatches(MockKeywordOrder, kws), ord), MockEmotionCap)

Digits(n) == IF n < 10 THEN 1 ELSE IF n < 100 THEN 2 ELSE IF n < 1000 THEN 3 ELSE 4

\* mock.py 71-86, by the length of the text it returns
GenerateMockSummary(kws, req) ==
    IF kws \cap { "ureshii", "tanoshii" } # {}
    THEN Str(21)
    ELSE Str(18 + Digits((req.user_message.len + req.ai_message.len) \div 10))

\* mock.py 35-69; pick is what random.choice returns
MockProcessMemory(kws, pick, req, ord) ==
    [summary |-> GenerateMockSummary(kws, req),
     emotions |-> IF ExtractMockEmotions(kws, ord) = <<>> THEN <<pick>>
                  ELSE ExtractMockEmotions(kws, ord)]

\* ---- the store ----
RECURSIVE JoinValuesUnseparated(_)
\* "".join(e.value for e in emotions)
JoinValuesUnseparated(emotions) ==
    IF emotions = <<>> THEN <<>>
    ELSE <<EmotionValue(emotions[1])>> \o JoinValuesUnseparated(Tail(emotions))

RECURSIVE JoinValues(_)
\* ",".join(e.value for e in emotions), as the sequence of its values and
\* commas
JoinValues(emotions) ==
    IF emotions = <<>> THEN <<>>
    ELSE IF Len(emotions) = 1 THEN <<EmotionValue(emotions[1])>>
    ELSE <<EmotionValue(emotions[1]), ",">> \o JoinValues(Tail(emotions))

RECURSIVE SplitValues(_, _)
\* s.split(","): the pieces between the commas, each the sequence of the
\* values it is made of; "".split(",") has one empty piece
SplitValues(s, cur) ==
    IF s = <<>> THEN <<cur>>
    ELSE IF Head(s) = "," THEN <<cur>> \o SplitValues(Tail(s), <<>>)
    ELSE SplitValues(Tail(s), Append(cur, Head(s)))

\* memory_store.py 87-96 and chroma_client.py 92-96: the metadata stored
\* with the document
Metadata(memory) ==
    [summary |-> memory.summary, emotions |-> JoinValues(memory.emotions),
     original_user |-> memory.original_user, original_ai |-> memory.original_ai,
     created_at |-> memory.created_at]

\* memory_service.py 64-74; created_at is TimestampMixin's
\* default_factory=datetime.utcnow (base.py)
NewMemory(id, llm, req) ==
    [id |-> id, summary |-> llm.summary, emotions |-> llm.emotions,
     original_user |-> req.user_message, original_ai |-> req.ai_message,
     created_at |-> now]

WithoutNothing(coll, id) == coll

\* collection.delete(ids=[id])
Without(coll, id) == [x \in (DOMAIN coll) \ {id} |-> coll[x]]

\* ---- the endpoints' validation ----
\* save.py 52-78
SaveEndpointCheckBlankOnly(req) ==
    IF Blank(req.user_message) THEN Reject("user_message_empty", 0)
    ELSE IF Blank(req.ai_message) THEN Reject("ai_message_empty", 0)
    ELSE Pass

SaveEndpointCheck(req) ==
    IF Blank(req.user_message) THEN Reject("user_message_empty", 0)
    ELSE IF Blank(req.ai_message) THEN Reject("ai_message_empty", 0)
    ELSE IF req.user_message.len > MessageMaxLen THEN Reject("user_message_too_long", 0)
    ELSE IF req.ai_message.len > MessageMaxLen THEN Reject("ai_message_too_long", 0)
    ELSE Pass

\* schemas/memory.py 35-45: what FastAPI accepts as the SearchRequest body of
\* POST /search before the handler runs
SearchRequestValid(k) == k >= 1 /\ k <= SchemaTopKMax

\* search.py 60-78
SearchEndpointCheck(query, k) ==
    IF Blank(query) THEN Reject("query_empty", 0)
    ELSE IF k <= 0 \/ k > SingleTopKMax THEN Reject("top_k_out_of_range", 0)
    ELSE IF query.len > QueryMaxLen THEN Reject("query_too_long", 0)
    ELSE Pass

\* ---- requests ----
StrMax == [len |-> 10000, blank |-> FALSE]

SaveRequests ==
    { OkSave,
      [user_message |-> StrSpace, ai_message |-> StrText],
      [user_message |-> StrText, ai_message |-> StrEmpty],
      [user_message |-> StrHuge, ai_message |-> StrText],
      [user_message |-> StrText, ai_message |-> StrHuge],
      [user_message |-> StrMax, ai_message |-> StrText] }

\* what random.choice(list(Emotion)) is explored with
MockPicks == { "ANXIETY" }

\* the keywords a conversation is explored with
MockKeywordSets == { {}, { "ureshii", "tanoshii" }, { "ureshii", "hazukashii" } }

\* no text has been searched for emotions
NoExtraction == [by |-> "none", text |-> {}, emotions |-> <<>>]

NoInvocations == [summarizer |-> 0, embedder |-> 0, store |-> 0]

NoRequest == [user_message |-> StrEmpty, ai_message |-> StrEmpty, entry |-> "none",
              memory_id |-> 0]

NoLLMResponse == [summary |-> Str(0), emotions |-> <<>>]

NoMemory ==
    [id |-> 0, summary |-> Str(0), emotions |-> <<>>, original_user |-> StrEmpty,
     original_ai |-> StrEmpty, created_at |-> 0]

NoReply ==
    [op |-> "none", status |-> 0, success |-> FALSE, memory_id |-> 0,
     summary |-> Str(0), emotions |-> <<>>, error |-> "", results |-> <<>>,
     memory |-> NoMemory, fields |-> {},
     store_raised |-> FALSE]

Replied(op, st, ok, id, llm, err) ==
    [op |-> op, status |-> st, success |-> ok, memory_id |-> id,
     summary |-> llm.summary, emotions |-> llm.emotions, error |-> err,
     results |-> <<>>, memory |-> NoMemory, fields |-> {},
     store_raised |-> FALSE]

\* save.py 83-103: the answer of POST /save to a SaveResponse; an item of a
\* batch gets no answer of its own (status 0)
SaveStatus(entry, ok) == IF entry = "batch" THEN 0 ELSE IF ok THEN 200 ELSE 500

\* ---- reading a record back ----
\* the pieces of the stored emotion string that are not blank
RECURSIVE NonEmptyPieces(_)
NonEmptyPieces(pieces) ==
    IF pieces = <<>> THEN <<>>
    ELSE (IF Head(pieces) = <<>> THEN <<>> ELSE <<Head(pieces)>>)
         \o NonEmptyPieces(Tail(pieces))

\* the piece is the value of a member
KnownValue(piece) == Len(piece) = 1 /\ \E e \in Emotions : EmotionValue(e) = piece[1]

\* emotion.py 58-64, for a piece that is a member's value
FromJapanese(piece) == CHOOSE e \in Emotions : EmotionValue(e) = piece[1]

\* memory_store.py 184-214 with chroma_client.py 155-182: None (NoMemory)
\* for an unknown id and when from_japanese raises
GetMemoryById(coll, id) ==
    IF id \notin DOMAIN coll THEN NoMemory
    ELSE LET pieces == NonEmptyPieces(SplitValues(coll[id].emotions, <<>>))
         IN  IF \E i \in 1..Len(pieces) : ~KnownValue(pieces[i]) THEN NoMemory
             ELSE [id |-> id, summary |-> coll[id].summary,
                   emotions |-> [i \in 1..Len(pieces) |-> FromJapanese(pieces[i])],
                   original_user |-> coll[id].original_user,
                   original_ai |-> coll[id].original_ai,
                   created_at |-> coll[id].created_at]

\* ---- POST /save, an item of POST /batch-save, and the service behind ----
otherVars == <<batchVars, rlVars, authVars>>

\* save.py 52-78 raised HTTPException(400); the service is not called
SaveRejected(req) ==
    /\ spc = "idle"
    /\ ops < MaxOps
    /\ SaveEndpointCheck(req) # Pass
    /\ ops' = ops + 1
    /\ sreq' = [user_message |-> req.user_message, ai_message |-> req.ai_message,
                entry |-> "save", memory_id |-> 0]
    /\ invoked' = NoInvocations
    /\ collection_before' = collection
    /\ reply' = [NoReply EXCEPT !.op = "save", !.status = 400,
                                !.error = SaveEndpointCheck(req).detail]
    /\ UNCHANGED <<llm_provider, hash_order, collection, next_id, spc, llm_response>>
    /\ UNCHANGED <<saved, search>>
    /\ UNCHANGED <<extraction, deletes>>
    /\ UNCHANGED otherVars

\* memory_service.py 37-55: save_memory starts for a request
ServiceStarts(req, entry) ==
    /\ ops' = ops + 1
    /\ sreq' = [user_message |-> req.user_message, ai_message |-> req.ai_message,
                entry |-> entry, memory_id |-> next_id]
    /\ next_id' = next_id + 1
    /\ invoked' = NoInvocations
    /\ collection_before' = collection
    /\ reply' = [NoReply EXCEPT !.op = "pending"]
    /\ spc' = "summarizer"
    /\ UNCHANGED <<llm_provider, hash_order, collection, llm_response>>
    /\ UNCHANGED <<saved, search>>
    /\ UNCHANGED <<extraction, deletes>>
    /\ UNCHANGED otherVars

\* save.py 52-81: the request passed the checks
SaveAccepted(req) ==
    /\ spc = "idle"
    /\ ops < MaxOps
    /\ SaveEndpointCheck(req) = Pass
    /\ ServiceStarts(req, "save")

\* batch.py 73-94: an item of a batch that passed the pre-flight checks is
\* handed to memory_service.save_memory
BatchItemAccepted(req) ==
    /\ spc = "idle"
    /\ ops < MaxOps
    /\ SaveItemCheck(<<req>>, 1) = Pass
    /\ ServiceStarts(req, "batch")

\* memory_service.py 100-124 and save.py 92-103: SaveResponse(success=False)
SaveFails(err) ==
    /\ reply' = Replied(sreq.entry, SaveStatus(sreq.entry, FALSE), FALSE,
                        sreq.memory_id, NoLLMResponse, err)
    /\ spc' = "idle"
    /\ llm_response' = NoLLMResponse
    /\ UNCHANGED <<llm_provider, hash_order, collection, next_id, sreq, collection_before, ops>>
    /\ UNCHANGED <<saved, search>>
    /\ UNCHANGED <<extraction, deletes>>
    /\ UNCHANGED otherVars

\* claude.py 57-58, 92-102: the API call raised
ClaudeRaises ==
    /\ spc = "summarizer"
    /\ llm_provider = "claude"
    /\ invoked' = [invoked EXCEPT !.summarizer = @ + 1]
    /\ SaveFails("llm_error")

\* claude.py 61-65, 100-102: the response does not pass _validate_response
ClaudeMalformed(resp) ==
    /\ spc = "summarizer"
    /\ llm_provider = "claude"
    /\ LET parsed == ParseResponse(resp, hash_order)
       IN  ~ValidateResponse(parsed.summary, parsed.emotions)
    /\ invoked' = [invoked EXCEPT !.summarizer = @ + 1]
    /\ SaveFails("llm_invalid_response")

\* claude.py 61-90: parsed and validated
ClaudeSummarized(resp) ==
    /\ spc = "summarizer"
    /\ llm_provider = "claude"
    /\ LET parsed == ParseResponse(resp, hash_order)
       IN  /\ ValidateResponse(parsed.summary, parsed.emotions)
           /\ llm_response' = parsed
    /\ invoked' = [invoked EXCEPT !.summarizer = @ + 1]
    /\ spc' = "embedder"
    /\ UNCHANGED <<llm_provider, hash_order, collection, next_id, sreq, collection_before,
                   reply, ops>>
    /\ UNCHANGED <<saved, search>>
    /\ UNCHANGED <<extraction, deletes>>
    /\ UNCHANGED otherVars

\* mock.py 35-69
MockSummarized(kws, pick) ==
    /\ spc = "summarizer"
    /\ llm_provider = "mock"
    /\ invoked' = [invoked EXCEPT !.summarizer = @ + 1]
    /\ llm_response' = MockProcessMemory(kws, pick, sreq, hash_order)
    /\ spc' = "embedder"
    /\ UNCHANGED <<llm_provider, hash_order, collection, next_id, sreq, collection_before,
                   reply, ops>>
    /\ UNCHANGED <<saved, search>>
    /\ UNCHANGED <<extraction, deletes>>
    /\ UNCHANGED otherVars

\* memory_service.py 60-61, 113-124: get_embedding raised
EmbedderRaises ==
    /\ spc = "embedder"
    /\ invoked' = [invoked EXCEPT !.embedder = @ + 1]
    /\ SaveFails("save_error")

\* memory_service.py 60-74
EmbedderReturns ==
    /\ spc = "embedder"
    /\ invoked' = [invoked EXCEPT !.embedder = @ + 1]
    /\ spc' = "store"
    /\ UNCHANGED <<llm_provider, hash_order, collection, next_id, sreq,
                   llm_response, collection_before, reply, ops>>
    /\ UNCHANGED <<saved, search>>
    /\ UNCHANGED <<extraction, deletes>>
    /\ UNCHANGED otherVars

\* memory_service.py 60-77: get_embedding returned an empty vector;
\* Memory(embedding=[]) is handed to the store
EmbedderReturnsEmpty ==
    /\ spc = "embedder"
    /\ invoked' = [invoked EXCEPT !.embedder = @ + 1]
    /\ spc' = "store_embedding"
    /\ UNCHANGED <<llm_provider, hash_order, collection, next_id, sreq,
                   llm_response, collection_before, reply, ops>>
    /\ UNCHANGED <<saved, search>>
    /\ UNCHANGED <<extraction, deletes>>
    /\ UNCHANGED otherVars

\* memory_store.py 99-101, 113-117: `if not memory.embedding` calls
\* embedding_client.get_embedding(memory.summary), which raised; the store
\* returns False
StoreEmbedderRaises ==
    /\ spc = "store_embedding"
    /\ invoked' = [invoked EXCEPT !.embedder = @ + 1]
    /\ SaveFails("save_error")

\* memory_store.py 99-101: the store's own get_embedding call returned
StoreEmbedderReturns ==
    /\ spc = "store_embedding"
    /\ invoked' = [invoked EXCEPT !.embedder = @ + 1]
    /\ spc' = "store"
    /\ UNCHANGED <<llm_provider, hash_order, collection, next_id, sreq,
                   llm_response, collection_before, reply, ops>>
    /\ UNCHANGED <<saved, search>>
    /\ UNCHANGED <<extraction, deletes>>
    /\ UNCHANGED otherVars

\* the record is left in the collection although the save is answered as
\* failed
StoreAddsAndFails ==
    /\ spc = "store"
    /\ invoked' = [invoked EXCEPT !.store = @ + 1]
    /\ collection' = Put(collection, sreq.memory_id,
                         Metadata(NewMemory(sreq.memory_id, llm_response, sreq)))
    /\ reply' = Replied(sreq.entry, SaveStatus(sreq.entry, FALSE), FALSE,
                        sreq.memory_id, NoLLMResponse, "save_error")
    /\ spc' = "idle"
    /\ llm_response' = NoLLMResponse
    /\ UNCHANGED <<llm_provider, hash_order, next_id, sreq, collection_before, ops>>
    /\ UNCHANGED <<saved, search>>
    /\ UNCHANGED <<extraction, deletes>>
    /\ UNCHANGED otherVars

\* chroma_client.py 98-120, memory_store.py 113-117, memory_service.py
\* 79-80: collection.add raised, add_memory returns False, RuntimeError
StoreRaises ==
    /\ spc = "store"
    /\ invoked' = [invoked EXCEPT !.store = @ + 1]
    /\ SaveFails("save_error")

\* memory_store.py 83-111, chroma_client.py 90-112, memory_service.py 77-98
StoreAdds ==
    /\ spc = "store"
    /\ invoked' = [invoked EXCEPT !.store = @ + 1]
    /\ collection' = Put(collection, sreq.memory_id,
                         Metadata(NewMemory(sreq.memory_id, llm_response, sreq)))
    /\ reply' = Replied(sreq.entry, SaveStatus(sreq.entry, TRUE), TRUE,
                        sreq.memory_id, llm_response, "")
    /\ saved' = Put(saved, sreq.memory_id,
                    NewMemory(sreq.memory_id, llm_response, sreq))
    /\ UNCHANGED search
    /\ spc' = "idle"
    /\ llm_response' = NoLLMResponse
    /\ UNCHANGED <<llm_provider, hash_order, next_id, sreq, collection_before, ops>>
    /\ UNCHANGED <<extraction, deletes>>
    /\ UNCHANGED otherVars

\* memory.py 130-164 (DELETE /memory/{id}) for a stored record
DeleteMemory(id) ==
    /\ spc = "idle"
    /\ ops < MaxOps
    /\ id \in DOMAIN collection
    /\ GetMemoryById(collection, id) # NoMemory
    /\ ops' = ops + 1
    /\ collection' = Without(collection, id)
    /\ collection_before' = collection
    /\ invoked' = [NoInvocations EXCEPT !.store = 2]
    /\ reply' = [NoReply EXCEPT !.op = "delete", !.status = 200, !.success = TRUE,
                                !.memory_id = id]
    /\ UNCHANGED <<llm_provider, hash_order, next_id, spc, sreq, llm_response>>
    /\ UNCHANGED <<saved, search>>
    /\ UNCHANGED <<extraction, deletes>>
    /\ UNCHANGED otherVars

\* memory.py 45-67 (GET /memory/{id}) with memory_service.py 177-189
GetMemory(id) ==
    /\ spc = "idle"
    /\ ops < MaxOps
    /\ ops' = ops + 1
    /\ collection_before' = collection
    /\ invoked' = [NoInvocations EXCEPT !.store = 1]
    /\ reply' = IF GetMemoryById(collection, id) = NoMemory
                THEN [NoReply EXCEPT !.op = "get", !.status = 404, !.memory_id = id]
                ELSE [NoReply EXCEPT !.op = "get", !.status = 200, !.success = TRUE,
                                     !.memory_id = id,
                                     !.memory = GetMemoryById(collection, id)]
    /\ UNCHANGED <<llm_provider, hash_order, collection, next_id, spc, sreq,
                   llm_response>>
    /\ UNCHANGED <<saved, search>>
    /\ UNCHANGED <<extraction, deletes>>
    /\ UNCHANGED otherVars

\* ---- /memory/{memory_id}: ids, refusals and the metadata update ----
\* the path parameter memory_id: 0 stands for a string UUID() rejects, n >= 1
\* for the text of the n-th uuid
IsUUID(pid) == pid >= 1

\* memory.py 45-67: GET /memory/{id} answered without a record: UUID()
\* raised ValueError (400), or collection.get raised and
\* chroma_client.py 176-182 returned None (404)
GetMemoryRefused(pid, store_ok) ==
    /\ spc = "idle"
    /\ ops < MaxOps
    /\ ~IsUUID(pid) \/ ~store_ok
    /\ ops' = ops + 1
    /\ collection_before' = collection
    /\ invoked' = [NoInvocations EXCEPT !.store = IF IsUUID(pid) THEN 1 ELSE 0]
    /\ reply' = [NoReply EXCEPT !.op = "get", !.memory_id = pid,
                                !.store_raised = IsUUID(pid),
                                !.status = IF IsUUID(pid) THEN 404 ELSE 400]
    /\ UNCHANGED <<llm_provider, hash_order, collection, next_id, spc, sreq,
                   llm_response>>
    /\ UNCHANGED <<saved, search>>
    /\ UNCHANGED <<extraction, deletes>>
    /\ UNCHANGED otherVars

\* memory.py 130-164: what DELETE /memory/{id} answers when it deletes
\* nothing: 400 for a malformed id, 404 when get_memory_by_id gave None
\* (no record, or collection.get raised), 500 when collection.delete raised
\* and chroma_client.py 200-206 returned False
DeleteStatus(coll, pid, get_ok, delete_ok) ==
    IF ~IsUUID(pid) THEN 400
    ELSE IF ~get_ok \/ GetMemoryById(coll, pid) = NoMemory THEN 404
    ELSE IF ~delete_ok THEN 500
    ELSE 200

DeleteMemoryRefused(pid, get_ok, delete_ok) ==
    /\ spc = "idle"
    /\ ops < MaxOps
    /\ DeleteStatus(collection, pid, get_ok, delete_ok) # 200
    /\ ops' = ops + 1
    /\ collection_before' = collection
    /\ invoked' = [NoInvocations EXCEPT !.store =
                      IF ~IsUUID(pid) THEN 0
                      ELSE IF DeleteStatus(collection, pid, get_ok, delete_ok) = 404
                      THEN 1 ELSE 2]
    /\ reply' = [NoReply EXCEPT !.op = "delete", !.memory_id = pid,
                                !.store_raised =
                                    (IsUUID(pid)
                                     /\ DeleteStatus(collection, pid, get_ok, delete_ok)
                                          # DeleteStatus(collection, pid, TRUE, TRUE)),
                                !.status = DeleteStatus(collection, pid, get_ok, delete_ok)]
    /\ UNCHANGED <<llm_provider, hash_order, collection, next_id, spc, sreq,
                   llm_response>>
    /\ UNCHANGED <<saved, search>>
    /\ UNCHANGED <<extraction, deletes>>
    /\ UNCHANGED otherVars

\* memory.py 244: allowed_fields
AllowedFields == { "user_id", "session_id", "app_name" }

\* the keys of update_data the update is explored with
UpdateBodies == { {}, { "user_id" }, { "user_id", "app_name" },
                 { "app_name", "summary" } }

\* memory.py 226-281: the status PUT /memory/{id} raises
UpdateStatus(coll, pid, fields, store_ok) ==
    IF ~IsUUID(pid) THEN 400
    ELSE IF fields = {} THEN 400
    ELSE IF fields \ AllowedFields # {} THEN 400
    ELSE IF ~store_ok \/ GetMemoryById(coll, pid) = NoMemory THEN 404
    ELSE 501

\* memory.py 194-293: PUT /memory/{id}
UpdateMemory(pid, fields, store_ok) ==
    /\ spc = "idle"
    /\ ops < MaxOps
    /\ ops' = ops + 1
    /\ collection_before' = collection
    /\ invoked' = [NoInvocations EXCEPT !.store =
                      IF UpdateStatus(collection, pid, fields, store_ok) = 400
                      THEN 0 ELSE 1]
    /\ reply' = [NoReply EXCEPT !.op = "update", !.memory_id = pid,
                                !.fields = fields,
                                !.store_raised =
                                    (UpdateStatus(collection, pid, fields, store_ok)
                                       # UpdateStatus(collection, pid, fields, TRUE)),
                                !.success = UpdateStatus(collection, pid, fields, store_ok) = 200,
                                !.status = UpdateStatus(collection, pid, fields, store_ok)]
    /\ UNCHANGED <<llm_provider, hash_order, collection, next_id, spc, sreq,
                   llm_response>>
    /\ UNCHANGED <<saved, search>>
    /\ UNCHANGED <<extraction, deletes>>
    /\ UNCHANGED otherVars

\* ---- POST /search ----
\* one unit of distance, and of score
DistanceScale == 10

\* distances collection.query can report (squared L2, the default space of
\* the collection), in tenths
Distances == { 0, 10, 15 }

SearchQueries == { StrText, StrEmpty, StrSpace, StrLong }

SearchTopKValues == { 0, 1, 5, SchemaTopKMax + 1, SingleTopKMax + 1 }

\* request.emotion_filter: None or a list of members
EmotionFilters == { <<>>, <<"JOY">>, <<"ANXIETY", "SHAME">> }

\* the stored ids, nearest first (ties by id)
Nearest(ids, dist) ==
    CHOOSE x \in ids : \A y \in ids : dist[x] < dist[y] \/ (dist[x] = dist[y] /\ x <= y)

RECURSIVE ByDistance(_, _)
ByDistance(ids, dist) ==
    IF ids = {} THEN <<>>
    ELSE <<Nearest(ids, dist)>> \o ByDistance(ids \ {Nearest(ids, dist)}, dist)

\* chroma_client.py 122-145: collection.query(n_results=top_k)
QueryCollection(coll, dist, k) == Take(ByDistance(DOMAIN coll, dist), k)

\* memory_store.py 154-158: any(emotion in memory_emotions for emotion in
\* emotion_values)
EmotionMatchAll(stored, filter) ==
    \A i \in 1..Len(filter) :
        <<EmotionValue(filter[i])>> \in Range(SplitValues(stored, <<>>))

EmotionMatch(stored, filter) ==
    \E i \in 1..Len(filter) :
        <<EmotionValue(filter[i])>> \in Range(SplitValues(stored, <<>>))

\* memory_store.py 170: "score": 1.0 - distance
Score(distance) == DistanceScale - distance

\* memory_store.py 168-174
SearchHit(coll, id, dist) ==
    [id |-> id, score |-> Score(dist[id]), summary |-> coll[id].summary,
     emotions |-> SplitValues(coll[id].emotions, <<>>)]

RECURSIVE ConvertResults(_, _, _, _)
\* memory_store.py 146-176
ConvertResults(coll, ids, dist, filter) ==
    IF ids = <<>> THEN <<>>
    ELSE (IF filter # <<>> /\ ~EmotionMatch(coll[Head(ids)].emotions, filter)
          THEN <<>>
          ELSE <<SearchHit(coll, Head(ids), dist)>>)
         \o ConvertResults(coll, Tail(ids), dist, filter)

\* memory_store.py 139-144: top_k=request.top_k, the n_results of the query
RequestedCandidates(k) == k

\* memory_store.py 119-176
StoreSearch(coll, dist, k, filter) ==
    ConvertResults(coll, QueryCollection(coll, dist, RequestedCandidates(k)), dist, filter)

NoSearch == [query |-> StrEmpty, top_k |-> 0, emotion_filter |-> <<>>,
             candidates |-> <<>>, store_failed |-> FALSE,
             date_from |-> <<>>, date_to |-> <<>>, limit |-> 0, offset |-> 0,
             requested |-> 0]

\* the body of POST /search does not validate as a SearchRequest: FastAPI
\* answers 422 and the handler is not entered
SearchUnprocessable(query, k) ==
    /\ spc = "idle"
    /\ ops < MaxOps
    /\ ~SearchRequestValid(k)
    /\ ops' = ops + 1
    /\ invoked' = NoInvocations
    /\ collection_before' = collection
    /\ search' = [NoSearch EXCEPT !.query = query, !.top_k = k]
    /\ reply' = [NoReply EXCEPT !.op = "search", !.status = 422,
                                !.error = "validation_error"]
    /\ UNCHANGED <<llm_provider, hash_order, collection, next_id, spc, sreq,
                   llm_response, saved>>
    /\ UNCHANGED <<extraction, deletes>>
    /\ UNCHANGED otherVars

\* search.py 60-78 raised HTTPException(400); the service is not called
SearchRejected(query, k) ==
    /\ spc = "idle"
    /\ ops < MaxOps
    /\ SearchRequestValid(k)
    /\ SearchEndpointCheck(query, k) # Pass
    /\ ops' = ops + 1
    /\ invoked' = NoInvocations
    /\ collection_before' = collection
    /\ search' = [NoSearch EXCEPT !.query = query, !.top_k = k]
    /\ reply' = [NoReply EXCEPT !.op = "search", !.status = 400,
                                !.error = SearchEndpointCheck(query, k).detail]
    /\ UNCHANGED <<llm_provider, hash_order, collection, next_id, spc, sreq,
                   llm_response, saved>>
    /\ UNCHANGED <<extraction, deletes>>
    /\ UNCHANGED otherVars

\* memory_service.py 139, 163-175 and search.py 112-123: get_embedding
\* raised
SearchEmbedderRaises(query, k) ==
    /\ spc = "idle"
    /\ ops < MaxOps
    /\ SearchRequestValid(k)
    /\ SearchEndpointCheck(query, k) = Pass
    /\ ops' = ops + 1
    /\ invoked' = [NoInvocations EXCEPT !.embedder = 1]
    /\ collection_before' = collection
    /\ search' = [NoSearch EXCEPT !.query = query, !.top_k = k]
    /\ reply' = [NoReply EXCEPT !.op = "search", !.status = 500,
                                !.error = "search_error"]
    /\ UNCHANGED <<llm_provider, hash_order, collection, next_id, spc, sreq,
                   llm_response, saved>>
    /\ UNCHANGED <<extraction, deletes>>
    /\ UNCHANGED otherVars

\* memory_service.py 126-161: the query is embedded, the store is queried
\* and its results are converted
SearchCompleted(query, k, filter, dist) ==
    /\ spc = "idle"
    /\ ops < MaxOps
    /\ SearchRequestValid(k)
    /\ SearchEndpointCheck(query, k) = Pass
    /\ ops' = ops + 1
    /\ invoked' = [NoInvocations EXCEPT !.embedder = 1, !.store = 1]
    /\ collection_before' = collection
    /\ search' = [NoSearch EXCEPT !.query = query, !.top_k = k,
                                   !.emotion_filter = filter,
                                   !.requested = RequestedCandidates(k),
                                   !.candidates = QueryCollection(collection, dist,
                                                      RequestedCandidates(k))]
    /\ reply' = [NoReply EXCEPT !.op = "search", !.status = 200, !.success = TRUE,
                                !.results = StoreSearch(collection, dist, k, filter)]
    /\ UNCHANGED <<llm_provider, hash_order, collection, next_id, spc, sreq,
                   llm_response, saved>>
    /\ UNCHANGED <<extraction, deletes>>
    /\ UNCHANGED otherVars

\* chroma_client.py 147-153: collection.query raised, the client returns
\* empty result lists; memory_store.py 146-176 converts them to [] and
\* memory_service.py 156-161 answers success with zero results
SearchStoreRaises(query, k, filter) ==
    /\ spc = "idle"
    /\ ops < MaxOps
    /\ SearchRequestValid(k)
    /\ SearchEndpointCheck(query, k) = Pass
    /\ ops' = ops + 1
    /\ invoked' = [NoInvocations EXCEPT !.embedder = 1, !.store = 1]
    /\ collection_before' = collection
    /\ search' = [NoSearch EXCEPT !.query = query, !.top_k = k,
                                   !.emotion_filter = filter,
                                   !.store_failed = TRUE]
    /\ reply' = [NoReply EXCEPT !.op = "search", !.status = 200, !.success = TRUE,
                                !.results = <<>>]
    /\ UNCHANGED <<llm_provider, hash_order, collection, next_id, spc, sreq,
                   llm_response, saved>>
    /\ UNCHANGED <<extraction, deletes>>
    /\ UNCHANGED otherVars

\* ---- date ranges: GET /memories and POST /search with a date bound ----
\* a date bound: <<>> for None, <<t>> for the instant t
\* memory_store.py 269-275 (and 160-166): the record is skipped when it was
\* created before date_from or after date_to
DateKeptHalfOpen(created_at, date_from, date_to) ==
    /\ ~(date_from # <<>> /\ created_at < date_from[1])
    /\ ~(date_to # <<>> /\ created_at >= date_to[1])

DateKept(created_at, date_from, date_to) ==
    /\ ~(date_from # <<>> /\ created_at < date_from[1])
    /\ ~(date_to # <<>> /\ created_at > date_to[1])

RECURSIVE FilterMemories(_, _, _, _, _)
\* memory_store.py 257-290
FilterMemories(coll, ids, emotions, date_from, date_to) ==
    IF ids = <<>> THEN <<>>
    ELSE (IF emotions # <<>> /\ ~EmotionMatch(coll[Head(ids)].emotions, emotions)
          THEN <<>>
          ELSE IF ~DateKept(coll[Head(ids)].created_at, date_from, date_to)
          THEN <<>>
          ELSE <<GetMemoryById(coll, Head(ids))>>)
         \o FilterMemories(coll, Tail(ids), emotions, date_from, date_to)

\* memory_store.py 250-255: the records nearest to the dummy vector;
\* chroma_client.py 147-153 returns none of them when collection.query raised
ListCandidates(coll, limit, store_ok) ==
    IF store_ok
    THEN QueryCollection(coll, [id \in DOMAIN coll |-> 0], Min(1000, limit * 10))
    ELSE <<>>

\* memory_store.py 293: memories[offset:offset + limit]
PageFromStart(memories, limit, offset) ==
    SubSeq(memories, 1, Min(limit, Len(memories)))

Page(memories, limit, offset) ==
    SubSeq(memories, offset + 1, Min(offset + limit, Len(memories)))

\* search.py 144-220 with memory_service.py 212-246 and memory_store.py
\* 229-293: GET /memories
ListMemories(emotions, date_from, date_to, limit, offset, store_ok) ==
    /\ spc = "idle"
    /\ ops < MaxOps
    /\ ops' = ops + 1
    /\ collection_before' = collection
    /\ invoked' = [NoInvocations EXCEPT !.store = 1]
    /\ search' = [NoSearch EXCEPT !.emotion_filter = emotions,
                                   !.candidates = ListCandidates(collection, limit, store_ok),
                                   !.store_failed = ~store_ok,
                                   !.date_from = date_from, !.date_to = date_to,
                                   !.limit = limit, !.offset = offset]
    /\ reply' = [NoReply EXCEPT !.op = "list", !.status = 200, !.success = TRUE,
                                !.results = Page(FilterMemories(collection,
                                                     ListCandidates(collection, limit, store_ok),
                                                     emotions, date_from, date_to),
                                                 limit, offset)]
    /\ UNCHANGED <<llm_provider, hash_order, collection, next_id, spc, sreq,
                   llm_response, saved>>
    /\ UNCHANGED <<extraction, deletes>>
    /\ UNCHANGED otherVars

\* search.py 80-98, 130-140: the body's date_from or date_to is a datetime
\* (schemas/memory.py 44-45); datetime.fromisoformat(request.date_from)
\* raises TypeError, which only the handler's except Exception catches
SearchDated(query, k, filter, date_from, date_to) ==
    /\ spc = "idle"
    /\ ops < MaxOps
    /\ SearchRequestValid(k)
    /\ SearchEndpointCheck(query, k) = Pass
    /\ date_from # <<>> \/ date_to # <<>>
    /\ ops' = ops + 1
    /\ invoked' = NoInvocations
    /\ collection_before' = collection
    /\ search' = [NoSearch EXCEPT !.query = query, !.top_k = k,
                                   !.emotion_filter = filter,
                                   !.date_from = date_from, !.date_to = date_to]
    /\ reply' = [NoReply EXCEPT !.op = "search", !.status = 500,
                                !.error = "server_error"]
    /\ UNCHANGED <<llm_provider, hash_order, collection, next_id, spc, sreq,
                   llm_response, saved>>
    /\ UNCHANGED <<extraction, deletes>>
    /\ UNCHANGED otherVars

\* the searches of this part rank every record at the same distance
UniformDistances == { [id \in 1..MaxOps |-> d] : d \in Distances }

NextService ==
    \/ \E req \in SaveRequests : SaveRejected(req)
    \/ \E req \in SaveRequests : SaveAccepted(req)
    \/ \E req \in SaveRequests : BatchItemAccepted(req)
    \/ ClaudeRaises
    \/ \E resp \in ServiceResponses : ClaudeMalformed(resp)
    \/ \E resp \in ServiceResponses : ClaudeSummarized(resp)
    \/ \E kws \in MockKeywordSets, pick \in MockPicks : MockSummarized(kws, pick)
    \/ EmbedderRaises
    \/ EmbedderReturns
    \/ EmbedderReturnsEmpty
    \/ StoreEmbedderRaises
    \/ StoreEmbedderReturns
    \/ StoreRaises
    \/ StoreAdds
    \/ \E id \in 1..MaxOps : DeleteMemory(id)
    \/ \E id \in 1..MaxOps : GetMemory(id)
    \/ \E query \in SearchQueries, k \in SearchTopKValues : SearchUnprocessable(query, k)
    \/ \E query \in SearchQueries, k \in SearchTopKValues : SearchRejected(query, k)
    \/ \E query \in SearchQueries, k \in SearchTopKValues : SearchEmbedderRaises(query, k)
    \/ \E query \in SearchQueries, k \in SearchTopKValues, dist \in UniformDistances : SearchCompleted(query, k, <<>>, dist)

\* ---- the parser, on every response ----
NextParse ==
    \/ \E resp \in Responses : ClaudeMalformed(resp)
    \/ \E resp \in Responses : ClaudeSummarized(resp)
    \/ EmbedderReturns
    \/ StoreAdds

\* ---- searches of a collection ----
MaxRecords == 3

\* the id of the i-th record
RankedDistances == [1..MaxRecords -> Distances]

NextSearch ==
    \/ \E query \in SearchQueries, k \in SearchTopKValues : SearchUnprocessable(query, k)
    \/ \E query \in SearchQueries, k \in SearchTopKValues, filter \in EmotionFilters : SearchStoreRaises(query, k, filter)
    \/ \E query \in SearchQueries, k \in SearchTopKValues : SearchRejected(query, k)
    \/ \E query \in SearchQueries, k \in SearchTopKValues : SearchEmbedderRaises(query, k)
    \/ \E query \in SearchQueries, k \in SearchTopKValues, filter \in EmotionFilters, dist \in RankedDistances : SearchCompleted(query, k, filter, dist)

\* ---- emotion extraction on its own ----
\* base.py 66-77: _extract_emotions on a text that mentions the members of
\* mentioned
ExtractFromText(mentioned) ==
    /\ spc = "idle"
    /\ extraction' = [by |-> "base", text |-> mentioned,
                      emotions |-> ExtractEmotions(mentioned, hash_order)]
    /\ UNCHANGED <<llm_provider, hash_order, collection, next_id, spc, sreq,
                   llm_response, invoked, collection_before, reply, ops, saved,
                   search, deletes>>
    /\ UNCHANGED otherVars

\* mock.py 88-101: _extract_mock_emotions on a text that contains the
\* keywords kws
ExtractFromKeywords(kws) ==
    /\ spc = "idle"
    /\ extraction' = [by |-> "mock", text |-> kws,
                      emotions |-> ExtractMockEmotions(kws, hash_order)]
    /\ UNCHANGED <<llm_provider, hash_order, collection, next_id, spc, sreq,
                   llm_response, invoked, collection_before, reply, ops, saved,
                   search, deletes>>
    /\ UNCHANGED otherVars

NextExtract ==
    \/ \E mentioned \in SUBSET Emotions : ExtractFromText(mentioned)
    \/ \E kws \in SUBSET MockKeywords : ExtractFromKeywords(kws)

\* ---- records read, deleted, updated and listed ----
\* records in the collection at the start
MaxDated == 2

\* the instants at which they were created
MaxCreated == 3

DateBounds == { <<>> } \cup { <<t>> : t \in 1..MaxCreated }

\* path ids: a malformed one, the ids of the records, one more
PathIds == 0..(MaxDated + MaxOps)

ListEmotions == { <<>>, <<"JOY">> }

ListLimits == { 1, 50 }

ListOffsets == { 0, 1 }

NextRecords ==
    \/ SaveAccepted(OkSave)
    \/ \E pick \in MockPicks : MockSummarized({}, pick)
    \/ EmbedderReturns
    \/ StoreAdds
    \/ \E id \in PathIds : DeleteMemory(id)
    \/ \E id \in PathIds \ {0} : GetMemory(id)
    \/ \E pid \in PathIds, store_ok \in BOOLEAN : GetMemoryRefused(pid, store_ok)
    \/ \E pid \in PathIds, get_ok \in BOOLEAN, delete_ok \in BOOLEAN : DeleteMemoryRefused(pid, get_ok, delete_ok)
    \/ \E pid \in PathIds, fields \in UpdateBodies, store_ok \in BOOLEAN : UpdateMemory(pid, fields, store_ok)
    \/ \E emotions \in ListEmotions, date_from \in DateBounds, date_to \in DateBounds, limit \in ListLimits, offset \in ListOffsets, store_ok \in BOOLEAN : ListMemories(emotions, date_from, date_to, limit, offset, store_ok)
    \/ \E k \in { 1, 5 }, date_from \in DateBounds, date_to \in DateBounds : SearchDated(StrText, k, <<>>, date_from, date_to)

(***************************************************************************)
(* Specifications                                                          *)
(***************************************************************************)

vars == <<batchVars, rlVars, extVars>>

\* no request has reached auth_middleware; the callers of Parts 1 and 2 are
\* the ones authentication let through
AuthIdle ==
    /\ auth_enabled = TRUE
    /\ lastAuth = NoAuth

\* the service has handled nothing
SvcIdle ==
    /\ llm_provider = "claude"
    /\ hash_order = EmotionOrder
    /\ collection = EmptyDict
    /\ next_id = 1
    /\ spc = "idle"
    /\ sreq = NoRequest
    /\ llm_response = NoLLMResponse
    /\ invoked = NoInvocations
    /\ collection_before = EmptyDict
    /\ reply = NoReply
    /\ ops = 0
    /\ saved = EmptyDict
    /\ search = NoSearch
    /\ extraction = NoExtraction
    /\ deletes = <<>>

ExtIdle == AuthIdle /\ SvcIdle

\* no batch is being handled
BatchIdle ==
    /\ batchKind = "save"
    /\ requests = <<>>
    /\ top_k = 5
    /\ bpc = "idle"
    /\ semaphore = 0
    /\ wpc = <<>>
    /\ taskResult = <<>>
    /\ svcCalls = <<>>
    /\ svcOutcome = <<>>
    /\ order = <<>>
    /\ response = NoResponse

\* a batch request arrives; the limiter is at rest
InitBatchRun == InitBatch /\ InitLimiter /\ config.enabled /\ ExtIdle

\* the limiter starts empty; no batch is being handled
InitLimiterRun == BatchIdle /\ InitLimiter /\ ExtIdle

\* one batch request, from its arrival to its response
SpecBatch == InitBatchRun /\ [][NextBatch]_vars

\* check_rate_limit, call after call
SpecLimiter == InitLimiterRun /\ [][NextLimiter]_vars

\* requests passing through rate_limit_middleware, several at a time
SpecMiddleware == InitLimiterRun /\ [][NextMiddleware]_vars

\* authentication switched on or off; the limiter starts empty
InitAuthRun ==
    /\ BatchIdle
    /\ InitLimiter
    /\ auth_enabled \in BOOLEAN
    /\ lastAuth = NoAuth
    /\ SvcIdle

\* requests passing through auth_middleware and then check_rate_limit
SpecAuth == InitAuthRun /\ [][NextAuth]_vars

\* an empty collection, either summarizer, either iteration order
InitServiceRun ==
    /\ BatchIdle
    /\ InitLimiter
    /\ config.enabled
    /\ AuthIdle
    /\ llm_provider \in { "claude", "mock" }
    /\ hash_order \in HashOrders
    /\ collection = EmptyDict
    /\ next_id = 1
    /\ spc = "idle"
    /\ sreq = NoRequest
    /\ llm_response = NoLLMResponse
    /\ invoked = NoInvocations
    /\ collection_before = EmptyDict
    /\ reply = NoReply
    /\ ops = 0
    /\ saved = EmptyDict
    /\ search = NoSearch
    /\ extraction = NoExtraction
    /\ deletes = <<>>

\* saves, deletions, reads and searches, one request after the other
SpecService == InitServiceRun /\ [][NextService]_vars

\* a well-formed save has reached the Claude summarizer
InitParseRun ==
    /\ BatchIdle
    /\ InitLimiter
    /\ config.enabled
    /\ AuthIdle
    /\ llm_provider = "claude"
    /\ hash_order \in HashOrders
    /\ collection = EmptyDict
    /\ next_id = 2
    /\ spc = "summarizer"
    /\ sreq = [user_message |-> OkSave.user_message, ai_message |-> OkSave.ai_message,
               entry |-> "save", memory_id |-> 1]
    /\ llm_response = NoLLMResponse
    /\ invoked = NoInvocations
    /\ collection_before = EmptyDict
    /\ reply = [NoReply EXCEPT !.op = "pending"]
    /\ ops = 1
    /\ saved = EmptyDict
    /\ search = NoSearch
    /\ extraction = NoExtraction
    /\ deletes = <<>>

\* one save, from the summarizer's response to the store
SpecParse == InitParseRun /\ [][NextParse]_vars

\* emotion lists of stored records
SeedEmotions == { <<"JOY", "ANXIETY">>, <<"SHAME">>, <<"JOY">>, <<"SHYNESS", "SHAME">> }

\* what earlier saves left in the persistent collection
SeedRecords ==
    { Metadata(NewMemory(0, [summary |-> Str(20), emotions |-> es], OkSave)) :
        es \in SeedEmotions }

SeedCollections == UNION { [1..n -> SeedRecords] : n \in 0..MaxRecords }

\* the service runs on the persistent collection earlier saves filled, with
\* one request left within the bound
InitSearchRun ==
    /\ BatchIdle
    /\ InitLimiter
    /\ config.enabled
    /\ AuthIdle
    /\ llm_provider = "claude"
    /\ hash_order = EmotionOrder
    /\ collection \in SeedCollections
    /\ next_id = MaxRecords + 1
    /\ spc = "idle"
    /\ sreq = NoRequest
    /\ llm_response = NoLLMResponse
    /\ invoked = NoInvocations
    /\ collection_before = collection
    /\ reply = NoReply
    /\ ops = MaxOps - 1
    /\ saved = EmptyDict
    /\ search = NoSearch
    /\ extraction = NoExtraction
    /\ deletes = <<>>

\* searches of a collection that does not change
SpecSearch == InitSearchRun /\ [][NextSearch]_vars

\* the emotions of the record created at instant t
DatedEmotions(t) == IF t % 2 = 1 THEN <<"JOY">> ELSE <<"SHAME", "JOY">>

\* the two extractors, in a process of either hash seed
SpecExtract == InitServiceRun /\ [][NextExtract]_vars

\* stored records, created at any of the instants
DatedRecords ==
    { [summary |-> Str(20), emotions |-> JoinValues(DatedEmotions(t)),
       original_user |-> StrText, original_ai |-> StrText, created_at |-> t] :
        t \in 1..MaxCreated }

\* one record more than a list of limit 1 fetches
ManyRecords == 11

\* the short collections, and a long one whose last record alone is recent
DatedCollections ==
    UNION { [1..n -> DatedRecords] : n \in 0..MaxDated }
    \cup { [i \in 1..ManyRecords |->
              [summary |-> Str(20),
               emotions |-> JoinValues(DatedEmotions(IF i = ManyRecords THEN 2 ELSE 1)),
               original_user |-> StrText, original_ai |-> StrText,
               created_at |-> IF i = ManyRecords THEN 2 ELSE 1]] }

\* the service runs on a collection of records created earlier
InitRecordsRun ==
    /\ BatchIdle
    /\ now = MaxCreated + 1
    /\ config \in Configs
    /\ config.enabled
    /\ request_counts = EmptyDict
    /\ burst_counts = EmptyDict
    /\ last_cleanup = 0
    /\ inflight = EmptyBag
    /\ arrivals = 0
    /\ lastDecision = NoDecision
    /\ admitLog = <<>>
    /\ twins = NoTwins
    /\ lastOutcome = NoOutcome
    /\ AuthIdle
    /\ llm_provider = "mock"
    /\ hash_order = EmotionOrder
    /\ collection \in DatedCollections
    /\ next_id = Max(MaxDated, Len(collection)) + 1
    /\ spc = "idle"
    /\ sreq = NoRequest
    /\ llm_response = NoLLMResponse
    /\ invoked = NoInvocations
    /\ collection_before = collection
    /\ reply = NoReply
    /\ ops = 0
    /\ saved = EmptyDict
    /\ search = NoSearch
    /\ extraction = NoExtraction
    /\ deletes = <<>>

\* reads, deletions, updates, lists and saves, one request after the other
SpecRecords == InitRecordsRun /\ [][NextRecords]_vars

(***************************************************************************)
(* Claims about the batch orchestrator                                     *)
(***************************************************************************)

\* the items whose worker failed: failure response or exception
FailedItems == { i \in 1..N : svcOutcome[i] \in {"failresp", "raise"} }

C2_OrderPreserved ==
    (bpc = "done" /\ response.status = 200) =>
        /\ Len(response.results) = N
        /\ \A i \in 1..N :
              /\ response.results[i].index = i - 1
              /\ response.results[i].success = (svcOutcome[i] = "ok")
              /\ (response.results[i].via = "except") = (svcOutcome[i] = "raise")

\* a report for a batch whose workers completed out of input order, one of
\* them by an exception and one successfully
C2_Witness ==
    /\ bpc = "done"
    /\ response.status = 200
    /\ N >= 2
    /\ order # <<>>
    /\ order[1] # 1
    /\ \E i \in 1..N : svcOutcome[i] = "raise"
    /\ \E i \in 1..N : svcOutcome[i] = "ok"

\* C3: at every moment at most min(10, N) items of a batch-save and at most
\* min(5, N) queries of a batch-search are inside the service call.
C3_ConcurrencyBound ==
    /\ batchKind = "save" =>
          (Cardinality(InService) <= 10 /\ Cardinality(InService) <= N)
    /\ batchKind = "search" =>
          (Cardinality(InService) <= 5 /\ Cardinality(InService) <= N)

\* the cap binds: a batch larger than the cap has the cap's number of items
\* in the service and a worker waiting for a slot
C3_Witness ==
    /\ N > SaveMaxConcurrent
    /\ batchKind = "save"
    /\ Cardinality(InService) = SaveMaxConcurrent
    /\ \E i \in 1..N : wpc[i] = "pending"

\* what the pre-flight validation forbids, stated on the whole batch
PreflightViolation ==
    \/ N = 0
    \/ batchKind = "save" /\ N > 100
    \/ batchKind = "save" /\ \E i \in 1..N :
          requests[i].user_message.blank \/ requests[i].ai_message.blank
    \/ batchKind = "search" /\ N > 50
    \/ batchKind = "search" /\ (top_k < 1 \/ top_k > 20)
    \/ batchKind = "search" /\ \E i \in 1..N :
          requests[i].blank \/ requests[i].len > 1000

\* C4: a batch that violates the pre-flight validation is rejected as a
\* whole and no worker starts: the service is invoked for none of its items.
C4_PreflightAtomic ==
    PreflightViolation =>
        /\ bpc \in {"received", "rejected"}
        /\ bpc = "rejected" => response.status = 400
        /\ \A i \in 1..N : svcCalls[i] = 0 /\ wpc[i] = "pending"

\* a rejected batch whose offending item comes after valid ones
C4_Witness ==
    /\ bpc = "rejected"
    /\ PreflightViolation
    /\ response.item >= 2
    /\ \A i \in 1..N : svcCalls[i] = 0

(***************************************************************************)
(* Claims about the rate limiter                                           *)
(***************************************************************************)

\* every admission of the identity of the last decision made before that
\* decision, oldest first, from the log that is never pruned
PriorAdmits ==
    LET before == IF lastDecision.allowed /\ lastDecision.seq > 0
                  THEN SubSeq(admitLog, 1, Len(admitLog) - 1)
                  ELSE admitLog
        own == SelectSeq(before, LAMBDA e : e[1] = lastDecision.key)
    IN  [i \in 1..Len(own) |-> own[i][2]]

\* the last b admissions, b >= 1, came less than a second apart
RapidRun(times, b) ==
    /\ b >= 1
    /\ Len(times) >= b
    /\ \A j \in (Len(times) - b + 1)..(Len(times) - 1) :
          times[j + 1] - times[j] < Sec(BurstWindow)

Younger(window) ==
    Cardinality({ i \in 1..Len(PriorAdmits) :
                     lastDecision.time - PriorAdmits[i] < Sec(window) })

\* C6: at every decision the per-minute count is the number of the
\* identity's recorded requests younger than 60 s and the per-hour count the
\* number younger than 3600 s; an older entry never contributes to a denial.
C6_WindowCounts ==
    lastDecision.seq > 0 =>
        LET d == lastDecision
        IN  /\ d.allowed => /\ d.minute_requests = Younger(MinuteWindow)
                            /\ d.hour_requests = Younger(HourWindow)
            /\ d.error = "minute_limit_exceeded" => Younger(MinuteWindow) >= d.limits.rpm
            /\ d.error = "hour_limit_exceeded" => Younger(HourWindow) >= d.limits.rph

\* an admission made while the deque still holds as many entries as the
\* per-minute cap, one of them older than a minute
C6_Witness ==
    /\ lastDecision.allowed
    /\ lastDecision.seq > 0
    /\ Len(lastDecision.pre_times) >= lastDecision.limits.rpm
    /\ Younger(MinuteWindow) < Len(lastDecision.pre_times)
    /\ Younger(HourWindow) > Younger(MinuteWindow)

\* admissions of entry i's identity on entry i's endpoint in the window
\* that ends with entry i
AdmittedWithin(i, window) ==
    Cardinality({ j \in 1..i : /\ admitLog[j][1] = admitLog[i][1]
                               /\ admitLog[j][3] = admitLog[i][3]
                               /\ admitLog[i][2] - admitLog[j][2] < Sec(window) })

\* C7: whatever the interleaving of the requests in flight, the admissions
\* of one identity on one endpoint never exceed the endpoint's per-minute
\* cap within 60 s nor its per-hour cap within 3600 s.
C7_NoUndercount ==
    \A i \in 1..Len(admitLog) :
        /\ AdmittedWithin(i, MinuteWindow) <= GetEndpointLimits(config, admitLog[i][3]).rpm
        /\ AdmittedWithin(i, HourWindow) <= GetEndpointLimits(config, admitLog[i][3]).rph

\* two admitted requests of one identity still in flight when a third one
\* arrives at the same instant and is denied by the per-minute cap
C7_Witness ==
    /\ BagCardinality(inflight) = 2
    /\ \A r \in BagToSet(inflight) : r.phase = "dispatched" /\ r.gate = "allowed"
    /\ Len(admitLog) = 2
    /\ admitLog[1][1] = admitLog[2][1]
    /\ lastDecision.seq = 3
    /\ lastDecision.key = admitLog[1][1]
    /\ lastDecision.time = admitLog[2][2]
    /\ lastDecision.error = "minute_limit_exceeded"

\* the three caps, stated on what the limiter held when the decision began
BurstViolated(d) ==
    /\ d.pre_burst >= d.limits.burst
    /\ ~(d.pre_times # <<>> /\ d.time - Last(d.pre_times) >= Sec(BurstWindow))

MinuteViolated(d) ==
    Cardinality({ i \in 1..Len(d.pre_times) : d.time - d.pre_times[i] < Sec(MinuteWindow) })
        >= d.limits.rpm

HourViolated(d) ==
    Cardinality({ i \in 1..Len(d.pre_times) : d.time - d.pre_times[i] < Sec(HourWindow) })
        >= d.limits.rph

\* C8: the denial reason names the first violated cap in the order burst,
\* per-minute, per-hour, and a request is admitted iff no cap is violated.
C8_CheckOrder ==
    lastDecision.seq > 0 =>
        LET d == lastDecision
        IN  /\ d.allowed = (~BurstViolated(d) /\ ~MinuteViolated(d) /\ ~HourViolated(d))
            /\ BurstViolated(d) => d.error = "burst_limit_exceeded"
            /\ (~BurstViolated(d) /\ MinuteViolated(d)) => d.error = "minute_limit_exceeded"
            /\ (~BurstViolated(d) /\ ~MinuteViolated(d) /\ HourViolated(d))
               => d.error = "hour_limit_exceeded"

\* a decision at which the per-minute and the per-hour cap are both
\* violated and the burst cap is not
C8_Witness ==
    /\ lastDecision.seq > 0
    /\ ~BurstViolated(lastDecision)
    /\ MinuteViolated(lastDecision)
    /\ HourViolated(lastDecision)
    /\ lastDecision.error = "minute_limit_exceeded"

\* a decision at which all three caps are violated
C8_WitnessAllThree ==
    /\ lastDecision.seq > 0
    /\ BurstViolated(lastDecision)
    /\ MinuteViolated(lastDecision)
    /\ HourViolated(lastDecision)

(***************************************************************************)
(* Claims about the rate-limit middleware                                  *)
(***************************************************************************)

DenialReasons ==
    { "burst_limit_exceeded", "minute_limit_exceeded", "hour_limit_exceeded" }

\* the step in which the limiter denies a request
DenialStep == lastDecision'.seq # lastDecision.seq /\ ~lastDecision'.allowed

C10_FailOpenOnlyOnLimiterFault ==
    \A r \in BagToSet(inflight) :
        /\ r.dispatches <= 1
        /\ r.phase = "failopen" => r.gate = "fault"

\* a request arrives at the middleware
Arrival == arrivals' = arrivals + 1

\* C11: a request during whose check the limiter raises an unexpected error
\* is handed to the handler through the fail-open call, and a request the
\* limiter denied is not: of the arriving requests exactly the denied ones
\* are not dispatched.
C11_FailOpenOnLimiterFault ==
    [][Arrival =>
          /\ DenialStep <=> inflight' = inflight
          /\ ~DenialStep => BagCardinality(inflight') = BagCardinality(inflight) + 1
          /\ \A r \in BagToSet(inflight') :
                /\ r.gate # "denied"
                /\ r.gate = "fault" => (r.phase = "failopen" /\ r.dispatches = 1)]_vars

\* a request let through by the fail-open call while the identity's last
\* decision was a denial
C11_Witness ==
    /\ \E r \in BagToSet(inflight) : r.gate = "fault" /\ r.phase = "failopen"
    /\ lastDecision.seq > 0
    /\ ~lastDecision.allowed
    /\ lastDecision.seq < arrivals

(***************************************************************************)
(* Claims about the public endpoints                                       *)
(***************************************************************************)

\* a request for the root, the health check or the docs, where the
\* application serves them, reaches auth_middleware
PublicArrival == lastAuth'.seq # lastAuth.seq /\ lastAuth'.path \in ServedPublic

\* C12: a request to a public endpoint (root, health, docs) is never
\* rejected for its credentials, is always allowed by the limiter whatever
\* the counters, and leaves every timestamp log and burst counter as it was.
C12_PublicEndpointsExempt ==
    [][PublicArrival =>
          /\ lastAuth'.status # 401
          /\ lastAuth'.limiter = "bypassed"
          /\ request_counts' = request_counts
          /\ burst_counts' = burst_counts]_vars

\* the same for the paths the two public lists name
ListedArrival == lastAuth'.seq # lastAuth.seq /\ lastAuth'.path \in AuthPublicEndpoints

ListedPathsExempt ==
    [][ListedArrival =>
          /\ lastAuth'.status # 401
          /\ lastAuth'.limiter = "bypassed" \/ ~config.enabled
          /\ request_counts' = request_counts
          /\ burst_counts' = burst_counts]_vars

(***************************************************************************)
(* Claims about the memory service                                         *)
(***************************************************************************)

\* the save request that was received last is a single save
LatestIsSave == reply.op \in { "save", "pending" } /\ sreq.entry = "save"

UnacceptableMessage(m) == m.len = 0 \/ Blank(m) \/ m.len > MessageMaxLen

LatestIsSearch == reply.op = "search"

UnacceptableQuery(q) == q.len = 0 \/ Blank(q) \/ q.len > QueryMaxLen

\* C13: a single save whose user or AI message is empty, whitespace or longer
\* than 10,000 characters, and a single search whose query is empty or longer
\* than 1000 characters, is answered with a validation error (400, not the
\* 500 of a provider failure), and the summarizer, the embedder and the store
\* are not invoked for it.
C13_RejectedBeforeProviders ==
    /\ (LatestIsSave /\ (UnacceptableMessage(sreq.user_message)
                         \/ UnacceptableMessage(sreq.ai_message)))
         => (reply.op = "save" /\ reply.status = 400 /\ invoked = NoInvocations
             /\ spc = "idle")
    /\ (LatestIsSearch /\ UnacceptableQuery(search.query))
         => (reply.status = (IF SearchRequestValid(search.top_k) THEN 400 ELSE 422)
             /\ invoked = NoInvocations)

\* an over-long save is rejected after an earlier save was stored
C13_Witness ==
    /\ LatestIsSave
    /\ sreq.user_message.len > MessageMaxLen
    /\ reply.status = 400
    /\ collection # EmptyDict

\* an over-long query is rejected
C13_WitnessSearch ==
    /\ LatestIsSearch
    /\ search.query.len > QueryMaxLen
    /\ reply.status = 400

\* the latest request was a save (single or batch item) that is answered
SaveAnswered == reply.op \in { "save", "batch" } /\ spc = "idle" /\ reply.status # 400

\* C14: a save that fails at the summarizer, at the embedder or at the
\* store's add leaves the store's records exactly as they were, and a save is
\* answered as successful only if its record was added.
C14_FailedSaveLeavesStore ==
    /\ spc # "idle" => collection = collection_before
    /\ (SaveAnswered /\ ~reply.success) => collection = collection_before
    /\ (SaveAnswered /\ reply.success) =>
          /\ reply.memory_id \in DOMAIN collection
          /\ reply.memory_id \notin DOMAIN collection_before
          /\ Without(collection, reply.memory_id) = collection_before

\* a save fails at the store's add while the collection holds a record
C14_Witness ==
    /\ SaveAnswered
    /\ ~reply.success
    /\ invoked.store = 1
    /\ collection # EmptyDict

\* a save fails at the embedder
C14_WitnessEmbedder ==
    /\ SaveAnswered
    /\ ~reply.success
    /\ invoked.embedder = 1
    /\ invoked.store = 0

\* the summary and the emotion string of a stored record are well-formed
WellFormedRecord(r) ==
    /\ r.summary.len > 0
    /\ ~Blank(r.summary)
    /\ r.summary.len <= SummaryMaxLen
    /\ r.emotions # <<>>

\* C15: a summarizer output with an empty summary, a summary over the bound
\* or no emotions makes the save fail without storing anything, and no stored
\* record has an empty or over-bound summary or an empty emotion list.
C15_MalformedSummaryNotStored ==
    /\ \A id \in DOMAIN collection : WellFormedRecord(collection[id])
    /\ spc \in { "embedder", "store_embedding", "store" } =>
          WellFormedRecord(Metadata(NewMemory(sreq.memory_id, llm_response, sreq)))
    /\ reply.error = "llm_invalid_response" =>
          (~reply.success /\ collection = collection_before /\ invoked.store = 0)

\* a malformed response fails a save while the collection holds a record
C15_Witness ==
    /\ reply.error = "llm_invalid_response"
    /\ collection # EmptyDict

\* the emotion tags of a stored record, as its emotion string lists them
StoredTags(r) == NonEmptyPieces(SplitValues(r.emotions, <<>>))

NoDuplicates(tags) ==
    \A i \in 1..Len(tags) : \A j \in 1..Len(tags) : tags[i] = tags[j] => i = j

\* C16: every persisted record has an emotion list without duplicates and
\* with at most 5 tags, whatever response the parsing step is given, emotion
\* sections of several lines included.
C16_EmotionsUniqueAndCapped ==
    \A id \in DOMAIN collection :
        /\ NoDuplicates(StoredTags(collection[id]))
        /\ Len(StoredTags(collection[id])) <= EmotionCap

C17_LengthOf(r) == IF r.original_user.len > r.original_ai.len
                   THEN r.original_user.len ELSE r.original_ai.len

\* C17: after any sequence of saves, batch saves and deletions every stored
\* record has an original_user and an original_ai of at most 10,000
\* characters: the bound is enforced on every entry path.
C17_OriginalsBounded ==
    \A id \in DOMAIN collection : C17_LengthOf(collection[id]) <= MessageMaxLen

\* the same for the records that came in through POST /save
SingleSaveOriginalsBounded ==
    (SaveAnswered /\ reply.op = "save" /\ reply.success) =>
        C17_LengthOf(collection[reply.memory_id]) <= MessageMaxLen

\* C18: after a successful save, reading the record by the id the save
\* returned gives the summary, the emotions, the original_user and the
\* original_ai the save was given and answered.
C18_SaveThenGetRoundTrip ==
    (reply.op = "get" /\ reply.memory_id \in DOMAIN saved
       /\ reply.memory_id \in DOMAIN collection) =>
        /\ reply.status = 200
        /\ reply.memory = saved[reply.memory_id]

\* a record with several emotions was read back
C18_Witness ==
    /\ reply.op = "get"
    /\ reply.status = 200
    /\ reply.memory_id \in DOMAIN saved
    /\ Len(reply.memory.emotions) >= 2
    /\ reply.memory.original_user.len = MessageMaxLen

\* the members a stored record is tagged with
RecordEmotionSet(r) == { FromJapanese(p) : p \in Range(StoredTags(r)) }

\* the candidates a filter keeps under any-match
MatchingCandidates(coll, filter) ==
    { id \in DOMAIN coll : RecordEmotionSet(coll[id]) \cap Range(filter) # {} }

ResultIds(results) == [i \in 1..Len(results) |-> results[i].id]

\* C19: for the candidates the store query returned and a non-empty emotion
\* filter F, a search returns exactly the candidates whose emotion set
\* intersects F, in the candidates' order; with an empty or absent filter it
\* returns every candidate.
C19_EmotionFilterAnyMatch ==
    (reply.op = "search" /\ reply.status = 200) =>
        ResultIds(reply.results) =
            IF search.emotion_filter = <<>>
            THEN search.candidates
            ELSE Keep(search.candidates,
                      MatchingCandidates(collection, search.emotion_filter))

\* a filter of two members kept a candidate and dropped another
C19_Witness ==
    /\ reply.op = "search"
    /\ reply.status = 200
    /\ Len(search.emotion_filter) = 2
    /\ reply.results # <<>>
    /\ Len(reply.results) < Len(search.candidates)
    /\ \E i \in 1..Len(reply.results) :
          ~(Range(search.emotion_filter)
               \subseteq RecordEmotionSet(collection[reply.results[i].id]))

\* an empty filter returned candidates of several emotion sets
C19_WitnessNoFilter ==
    /\ reply.op = "search"
    /\ reply.status = 200
    /\ search.emotion_filter = <<>>
    /\ Len(reply.results) = MaxRecords

\* C20: every result of a search has a score between 0 and 1, whatever
\* non-negative distance the collection reported for it.
C20_ScoreWithinUnit ==
    \A i \in 1..Len(reply.results) :
        /\ 0 <= reply.results[i].score
        /\ reply.results[i].score <= DistanceScale

\* the upper half alone: no score exceeds 1
ScoreAtMostOne ==
    \A i \in 1..Len(reply.results) : reply.results[i].score <= DistanceScale

\* the latest decision admitted a request that came a second or more after
\* the identity's last recorded one
AdmittedAfterGap ==
    /\ lastDecision.seq > 0
    /\ lastDecision.allowed
    /\ lastDecision.pre_times # <<>>
    /\ lastDecision.time - Last(lastDecision.pre_times) >= Sec(BurstWindow)

\* C27: the burst counter is reset whenever a second or more has passed
\* since the identity's last recorded request, saturated or not: after an
\* admitted request that arrives a second or more after the previous recorded
\* one the counter is 1.
C27_BurstResetAfterGap ==
    AdmittedAfterGap => Get(burst_counts, lastDecision.key, 0) = 1

\* the same for a counter that had reached the cap
SaturatedBurstReset ==
    (AdmittedAfterGap /\ lastDecision.pre_burst >= lastDecision.limits.burst) =>
        Get(burst_counts, lastDecision.key, 0) = 1

\* the latest decision is a denial
LatestDenied == lastDecision.seq > 0 /\ ~lastDecision.allowed

\* the decision on the same request made again wait ticks after the denial,
\* the identity having sent nothing in between
RetryDecision(wait) ==
    CheckRateLimit(lastDecision.key, lastDecision.limits, lastDecision.time + wait,
                   request_counts, burst_counts)

NotDeniedAgain(d) == d.allowed \/ d.error # lastDecision.error

\* C28: the retry timing of a denial is sufficient: a client that waits the
\* Retry-After value it was sent and then retries, the identity sending
\* nothing else, is not denied again by the same cap.
C28_RetryAfterSufficient ==
    LatestDenied =>
        NotDeniedAgain(RetryDecision(Sec(RetryAfterHeader(lastDecision.reset_in))))

\* the same for a client that waits the reset_in of the error detail
ResetInSufficient ==
    LatestDenied => NotDeniedAgain(RetryDecision(lastDecision.reset_in))

\* reset_in is, for burst, a second less the time since the last recorded
\* request and, for the minute and the hour, the time until the oldest
\* request counted in the window leaves it
ResetInAsDocumented ==
    LatestDenied =>
        LET d == lastDecision
            window == IF d.error = "minute_limit_exceeded" THEN Sec(MinuteWindow)
                      ELSE Sec(HourWindow)
        IN  IF d.error = "burst_limit_exceeded"
            THEN d.reset_in = Sec(BurstWindow) - (d.time - Last(d.pre_times))
            ELSE d.reset_in =
                   window - (d.time - FirstAfter(d.pre_times, d.time - window, d.time))

\* a cleanup pass ran in this step
CleanupPass == last_cleanup' # last_cleanup

\* the step recorded a request
RecordingStep == lastDecision'.seq # lastDecision.seq /\ lastDecision'.allowed

\* the timestamps a key's log holds
Stamps(rc, k) == { rc[k][i] : i \in 1..Len(rc[k]) }

\* C29: a cleanup pass runs only when a request is recorded and at most once
\* per 300 s; after a pass no identity is left whose whole history is older
\* than an hour (its log and its burst counter are both gone), and no step
\* removes a timestamp younger than an hour or an identity that has one, the
\* identity whose request triggered the pass included.
C29_CleanupRule ==
    [][/\ CleanupPass =>
            /\ RecordingStep
            /\ now' - last_cleanup >= Sec(CleanupInterval)
            /\ last_cleanup' = now'
            /\ \A k \in DOMAIN request_counts' :
                  \E t \in Stamps(request_counts', k) : t >= now' - Sec(HourWindow)
            /\ DOMAIN burst_counts' \subseteq DOMAIN request_counts'
            /\ lastDecision'.key \in DOMAIN request_counts'
            /\ lastDecision'.key \in DOMAIN burst_counts'
            /\ now' \in Stamps(request_counts', lastDecision'.key)
       /\ \A k \in DOMAIN request_counts :
             \A t \in Stamps(request_counts, k) :
                t > now' - Sec(HourWindow) =>
                   /\ k \in DOMAIN request_counts'
                   /\ t \in Stamps(request_counts', k)
                   /\ k \in DOMAIN burst_counts => k \in DOMAIN burst_counts'
       /\ ~CleanupPass =>
             \A k \in DOMAIN request_counts :
                /\ k \in DOMAIN request_counts'
                /\ Stamps(request_counts, k) \subseteq Stamps(request_counts', k)]_vars

\* a pass has removed an identity that had been admitted, and kept another
C29_Witness ==
    /\ last_cleanup > 0
    /\ request_counts # EmptyDict
    /\ \E i \in 1..Len(admitLog) : admitLog[i][1] \notin DOMAIN request_counts

\* a pass has dropped the old timestamps of an identity it kept
C29_WitnessTrimmed ==
    /\ last_cleanup > 0
    /\ \E i \in 1..Len(admitLog) :
          /\ admitLog[i][1] \in DOMAIN request_counts
          /\ admitLog[i][2] \notin Stamps(request_counts, admitLog[i][1])

\* a batch-save ended in its report
SaveReported == bpc = "done" /\ batchKind = "save" /\ response.status = 200

\* the successful entries of the report
ReportedOk == { i \in 1..Len(response.results) : response.results[i].success }

\* the tags of the successful entries, each once
ReportedTags ==
    UNION { { response.results[i].emotions[j] : j \in 1..Len(response.results[i].emotions) } :
              i \in ReportedOk }

\* the tags of the successful entries, entry by entry
ReportedDetections ==
    UNION { { <<i, j>> : j \in 1..Len(response.results[i].emotions) } : i \in ReportedOk }

\* C26 as stated: total_emotions_detected is the number of distinct emotion
\* tags across the successful items of the batch-save report, a tag detected
\* in several items counted once.
C26_DistinctEmotionCount ==
    SaveReported => response.total_emotions_detected = Cardinality(ReportedTags)

\* C26 as amended: total_emotions_detected is the number of emotion tags of
\* the successful items added up item by item, a tag detected in several
\* successful items counted once for each of them; failed items add nothing.
C26_EmotionTotal ==
    SaveReported => response.total_emotions_detected = Cardinality(ReportedDetections)

\* a report with a failed item and two successful items that share a tag
C26_Witness ==
    /\ SaveReported
    /\ \E i \in 1..Len(response.results) : ~response.results[i].success
    /\ \E i \in ReportedOk, k \in ReportedOk :
          /\ i # k
          /\ \E j \in 1..Len(response.results[i].emotions) :
                \E l \in 1..Len(response.results[k].emotions) :
                   response.results[i].emotions[j] = response.results[k].emotions[l]
    /\ response.total_emotions_detected > Cardinality(ReportedTags)

\* the latest request is a save the service was called for
SaveInService == reply.op \in { "pending", "save", "batch" } /\ reply.status # 400

\* the stages of the save, each entered after the one before succeeded
StagesInOrder ==
    /\ spc = "summarizer" => invoked = NoInvocations
    /\ spc = "embedder" =>
          (invoked.summarizer = 1 /\ invoked.embedder = 0 /\ invoked.store = 0
           /\ llm_response # NoLLMResponse)
    /\ spc = "store" =>
          (invoked.summarizer = 1 /\ invoked.embedder >= 1 /\ invoked.store = 0)
    /\ invoked.embedder > 0 => invoked.summarizer = 1
    /\ invoked.store > 0 => invoked.embedder > 0
    /\ (spc = "idle" /\ reply.success) =>
          (invoked.summarizer = 1 /\ invoked.embedder >= 1 /\ invoked.store = 1)
    /\ (spc = "idle" /\ ~reply.success) =>
          (invoked.summarizer >= 1
           /\ (reply.error \in { "llm_error", "llm_invalid_response" }
                 => (invoked.embedder = 0 /\ invoked.store = 0)))

\* C30: within one save the stages run in the order summarize, embed,
\* store-add, each only after the one before succeeded; a failure ends the
\* save; the summarizer, the embedder and the store's add are each invoked at
\* most once per save.
C30_StagesInOrderOnce ==
    SaveInService =>
        /\ StagesInOrder
        /\ invoked.summarizer <= 1
        /\ invoked.embedder <= 1
        /\ invoked.store <= 1

\* the order of the stages, and one call at most of the summarizer and of
\* the store's add
StagesOrderedSummarizerAndAddOnce ==
    SaveInService =>
        /\ StagesInOrder
        /\ invoked.summarizer <= 1
        /\ invoked.store <= 1
        /\ invoked.embedder <= 2

\* the latest request is a search that reached the service
SearchInService == reply.op = "search" /\ reply.status \notin { 400, 422 }

\* the candidates the filter of the latest search keeps
KeptCandidates ==
    { search.candidates[i] : i \in 1..Len(search.candidates) }
      \cap (IF search.emotion_filter = <<>> THEN DOMAIN collection
            ELSE MatchingCandidates(collection, search.emotion_filter))

\* C21: a search that matches nothing is answered with success and zero
\* results; a failure of the candidate store during a search is answered
\* with the failed outcome (success = false, zero results), so that the two
\* are told apart; the list returned is never partly built.
C21_StoreFailureDistinct ==
    SearchInService =>
        /\ search.store_failed => (~reply.success /\ reply.results = <<>>)
        /\ (reply.success /\ reply.results = <<>>) => ~search.store_failed
        /\ reply.success => Range(ResultIds(reply.results)) = KeptCandidates
        /\ ~reply.success => reply.results = <<>>

\* a search that matches nothing is a success with zero results, a failure
\* of the embedder is the failed outcome, and the list of a success is
\* whole
EmptyMatchIsSuccess ==
    SearchInService =>
        /\ (~search.store_failed /\ invoked.store = 1 /\ KeptCandidates = {}) =>
              (reply.success /\ reply.status = 200 /\ reply.results = <<>>)
        /\ invoked.store = 0 =>
              (~reply.success /\ reply.status = 500 /\ reply.results = <<>>)
        /\ reply.success => Range(ResultIds(reply.results)) = KeptCandidates

\* a search of a collection with records matched nothing
EmptyMatchWitness ==
    /\ SearchInService
    /\ reply.success
    /\ ~search.store_failed
    /\ search.candidates # <<>>
    /\ reply.results = <<>>

\* C22: single search accepts every top_k from 1 to 100 and rejects every
\* other top_k with the handler's validation error (400, naming the range 1
\* to 100).
C22_SingleTopKRange ==
    (LatestIsSearch /\ ~UnacceptableQuery(search.query)) =>
        IF search.top_k >= 1 /\ search.top_k <= SingleTopKMax
        THEN reply.status \notin { 400, 422 }
        ELSE reply.status = 400 /\ reply.error = "top_k_out_of_range"

\* single search accepts the top_k values from 1 to 20 and answers every
\* other one with 422, before the handler and the providers
SingleTopKSchemaRange ==
    (LatestIsSearch /\ ~UnacceptableQuery(search.query)) =>
        IF search.top_k >= 1 /\ search.top_k <= SchemaTopKMax
        THEN reply.status \notin { 400, 422 }
        ELSE reply.status = 422 /\ invoked = NoInvocations

\* batch search accepts exactly the top_k values from 1 to 20
BatchTopKRange ==
    (batchKind = "search" /\ bpc = "done" /\ Len(requests) \in 1..SearchMaxBatch
       /\ QueryCheck(requests, 1) = Pass) =>
        IF top_k >= 1 /\ top_k <= BatchTopKMax
        THEN response.status = 200
        ELSE response.status = 400 /\ response.detail = "top_k_out_of_range"

\* a batch search with top_k 20 was answered and one with 21 was rejected
BatchTopKAtCap ==
    batchKind = "search" /\ bpc = "done" /\ top_k = BatchTopKMax /\ response.status = 200

\* the ids of the records a list or a search returned
ReturnedIds == { reply.results[i].id : i \in 1..Len(reply.results) }

\* the candidates of the latest request that pass its emotion filter
EmotionKept ==
    { id \in Range(search.candidates) :
        search.emotion_filter = <<>>
        \/ id \in MatchingCandidates(collection, search.emotion_filter) }

\* the latest request is a list whose page holds every record it keeps
WholeList ==
    /\ reply.op = "list"
    /\ ~search.store_failed
    /\ search.offset = 0
    /\ search.limit >= Cardinality(DOMAIN collection)

\* the latest request is a well-formed search with a date bound
DatedSearch ==
    /\ reply.op = "search"
    /\ reply.status \notin { 400, 422 }
    /\ (search.date_from # <<>> \/ search.date_to # <<>>)

\* C23: in search and in list a candidate is kept if and only if date_from is
\* absent or not after its created_at, and date_to is absent or after its
\* created_at: the range includes date_from and excludes date_to.
C23_DateRangeHalfOpen ==
    /\ WholeList =>
          ReturnedIds = { id \in EmotionKept :
                            DateKeptHalfOpen(collection[id].created_at,
                                             search.date_from, search.date_to) }
    /\ DatedSearch =>
          (reply.status = 200
           /\ ReturnedIds = { id \in EmotionKept :
                                DateKeptHalfOpen(collection[id].created_at,
                                                 search.date_from, search.date_to) })

\* the list keeps the records created from date_from to date_to, both
\* included, and a search with a date bound is answered 500 before any
\* provider is called
ListDateRangeClosed ==
    /\ WholeList =>
          ReturnedIds = { id \in EmotionKept :
                            /\ (search.date_from = <<>>
                                \/ search.date_from[1] <= collection[id].created_at)
                            /\ (search.date_to = <<>>
                                \/ collection[id].created_at <= search.date_to[1]) }
    /\ DatedSearch =>
          (reply.status = 500 /\ ~reply.success /\ invoked = NoInvocations)

\* a list returned a record created at the instant of its date_to and
\* left out a later one
ListDateToWitness ==
    /\ WholeList
    /\ search.date_to # <<>>
    /\ \E id \in ReturnedIds : collection[id].created_at = search.date_to[1]
    /\ \E id \in DOMAIN collection : collection[id].created_at > search.date_to[1]

\* C24: the metadata update never reports success and never changes the
\* store; a well-formed request for an existing id is answered with the
\* not-supported outcome (501); and from one step to the next every record
\* that stays in the store keeps the field values it was created with.
C24_UpdateNotSupported ==
    /\ [](reply.op = "update" =>
            /\ ~reply.success
            /\ reply.status # 200
            /\ collection = collection_before
            /\ (IsUUID(reply.memory_id) /\ reply.fields # {}
                  /\ reply.fields \subseteq AllowedFields
                  /\ reply.memory_id \in DOMAIN collection) => reply.status = 501)
    /\ [][\A id \in DOMAIN collection \cap DOMAIN collection' :
              collection'[id] = collection[id]]_vars

\* the same, the 501 being the answer when the store could be read
UpdateRefusedRecordsKept ==
    /\ [](reply.op = "update" =>
            /\ ~reply.success
            /\ reply.status \in { 400, 404, 501 }
            /\ collection = collection_before
            /\ (IsUUID(reply.memory_id) /\ reply.fields # {}
                  /\ reply.fields \subseteq AllowedFields
                  /\ reply.memory_id \in DOMAIN collection /\ ~reply.store_raised)
                 => reply.status = 501
            /\ reply.status = 501 => reply.memory_id \in DOMAIN collection)
    /\ [][\A id \in DOMAIN collection \cap DOMAIN collection' :
              collection'[id] = collection[id]]_vars

\* an update of an existing record was answered 501 after a save and
\* another with a content field 400
UpdateWitness ==
    /\ reply.op = "update"
    /\ reply.status = 501
    /\ reply.memory_id \in DOMAIN saved

\* the latest request is a read or a deletion by id
ByIdRequest == reply.op \in { "get", "delete" }

\* C25: get and delete by id answer a malformed id with the malformed-id
\* outcome without a store call; a well-formed id with not-found if and only
\* if no record of that id is stored; and otherwise return, respectively
\* delete, the stored record.
C25_IdOutcomesExact ==
    ByIdRequest =>
        /\ ~IsUUID(reply.memory_id) => (reply.status = 400 /\ invoked.store = 0)
        /\ IsUUID(reply.memory_id) =>
              /\ reply.status # 400
              /\ (reply.status = 404) = (reply.memory_id \notin DOMAIN collection_before)
              /\ reply.status = 200 =>
                    IF reply.op = "get"
                    THEN reply.memory = GetMemoryById(collection_before, reply.memory_id)
                    ELSE collection = Without(collection_before, reply.memory_id)

\* the same, for the requests during which no store call raised; a raised
\* read is answered 404 and a raised deletion 500, the record staying
IdOutcomesReadableStore ==
    ByIdRequest =>
        /\ ~IsUUID(reply.memory_id) => (reply.status = 400 /\ invoked.store = 0)
        /\ IsUUID(reply.memory_id) =>
              /\ reply.status # 400
              /\ invoked.store >= 1
              /\ ~reply.store_raised =>
                    (reply.status = 404) = (reply.memory_id \notin DOMAIN collection_before)
              /\ reply.store_raised =>
                    (reply.status \in { 404, 500 } /\ collection = collection_before)
              /\ reply.status = 200 =>
                    IF reply.op = "get"
                    THEN reply.memory = GetMemoryById(collection_before, reply.memory_id)
                    ELSE collection = Without(collection_before, reply.memory_id)

\* a malformed id was refused, and a stored record was deleted
MalformedIdWitness == ByIdRequest /\ reply.status = 400 /\ collection # EmptyDict

DeletedWitness ==
    reply.op = "delete" /\ reply.status = 200 /\ collection # collection_before

\* the latest request is a search the store answered, with an emotion filter
\* to apply to the candidates
FilteredSearch ==
    /\ reply.op = "search"
    /\ reply.status = 200
    /\ ~search.store_failed
    /\ search.emotion_filter # <<>>

\* C31: when an exact predicate is applied after the store query, the number
\* of candidates requested from the store is greater than the request's
\* top_k, and at most top_k results are returned.
C31_SearchOverFetches ==
    FilteredSearch =>
        /\ search.requested > search.top_k
        /\ Len(reply.results) <= search.top_k

\* the store is asked for exactly top_k candidates, and at most top_k results
\* are returned
RequestsTopKCandidates ==
    (reply.op = "search" /\ reply.status = 200 /\ ~search.store_failed) =>
        /\ search.requested = search.top_k
        /\ Len(search.candidates) <= search.top_k
        /\ Len(reply.results) <= search.top_k

\* a filtered search with top_k = 1 returned nothing although a stored
\* record matches the filter
FilterStarvedWitness ==
    /\ FilteredSearch
    /\ search.top_k = 1
    /\ reply.results = <<>>
    /\ MatchingCandidates(collection, search.emotion_filter) # {}

\* the members _extract_mock_emotions collects for the keywords
MockFound(kws) == Range(MockMatches(MockKeywordOrder, kws))

\* the latest extraction found more tags than it may return
Truncating ==
    \/ extraction.by = "base" /\ Cardinality(FoundIn(extraction.text)) > EmotionCap
    \/ extraction.by = "mock" /\ Cardinality(MockFound(extraction.text)) > MockEmotionCap

\* C32: when an extraction finds more tags than the cap, the tags kept are
\* the first ones in a fixed order: extracting from the same text gives the
\* same list, whatever process does it.
C32_TruncationStable ==
    Truncating =>
        \A ord \in HashOrders :
            extraction.emotions =
                IF extraction.by = "base"
                THEN ExtractEmotions(extraction.text, ord)
                ELSE ExtractMockEmotions(extraction.text, ord)

\* what is kept is a list without repetition of as many of the tags found as
\* the cap allows
TruncationKeepsFoundTags ==
    /\ extraction.by = "base" =>
          /\ Range(extraction.emotions) \subseteq FoundIn(extraction.text)
          /\ Len(extraction.emotions) = Min(EmotionCap, Cardinality(FoundIn(extraction.text)))
          /\ Cardinality(Range(extraction.emotions)) = Len(extraction.emotions)
    /\ extraction.by = "mock" =>
          /\ Range(extraction.emotions) \subseteq MockFound(extraction.text)
          /\ Len(extraction.emotions) = Min(MockEmotionCap, Cardinality(MockFound(extraction.text)))
          /\ Cardinality(Range(extraction.emotions)) = Len(extraction.emotions)

\* six tags were found and five kept
TruncatedWitness == extraction.by = "base" /\ Truncating /\ Len(extraction.emotions) = EmotionCap

\* the fetched candidates of the latest list that pass its emotion and date
\* predicates, in the order fetched
PassingCandidates ==
    Keep(search.candidates,
         { id \in EmotionKept :
             DateKept(collection[id].created_at, search.date_from, search.date_to) })

\* C33: a list returns at most limit records: the positions offset to
\* offset + limit - 1 (counted from 0) of the fetched candidates that pass the
\* predicates, the fetched candidates being at most min(1000, 10 x limit)
\* records of the store; an offset at or beyond the number of passing
\* candidates gives an empty list and no error.
C33_ListPage ==
    reply.op = "list" =>
        /\ reply.status = 200
        /\ Len(reply.results) <= search.limit
        /\ Len(search.candidates) <= Min(1000, 10 * search.limit)
        /\ ~search.store_failed =>
              Len(search.candidates) =
                  Min(Min(1000, 10 * search.limit), Cardinality(DOMAIN collection))
        /\ Range(search.candidates) \subseteq DOMAIN collection
        /\ ResultIds(reply.results) =
              [i \in 1..Min(search.limit, Max(0, Len(PassingCandidates) - search.offset)) |->
                  PassingCandidates[search.offset + i]]
        /\ search.offset >= Len(PassingCandidates) => reply.results = <<>>

\* a page that starts after the first passing record
C33_Witness ==
    /\ reply.op = "list"
    /\ search.offset = 1
    /\ search.limit = 1
    /\ Len(PassingCandidates) >= 2
    /\ reply.results # <<>>

\* an offset beyond the passing records
C33_WitnessBeyond ==
    /\ reply.op = "list"
    /\ search.offset >= Len(PassingCandidates)
    /\ PassingCandidates # <<>>
    /\ reply.results = <<>>

\* a stored record passes the predicates but was not among those fetched
C33_WitnessNotFetched ==
    /\ reply.op = "list"
    /\ ~search.store_failed
    /\ Len(search.candidates) < Cardinality(DOMAIN collection)
    /\ reply.results = <<>>
    /\ \E id \in DOMAIN collection :
          DateKept(collection[id].created_at, search.date_from, search.date_to)

\* ---- a denial and the identity's state ----
\* the last arrival was answered by the limiter with a denial
JustDenied == lastDecision.seq = arrivals /\ arrivals > 0 /\ ~lastDecision.allowed

\* C34: a denied request leaves the identity's rate-limit state unchanged:
\* its timestamp log and its burst counter are the same after the denial as
\* before it, whichever cap caused the denial
C34_DenialLeavesState ==
    JustDenied =>
        /\ Get(request_counts, lastDecision.key, <<>>) = lastDecision.pre_times
        /\ Get(burst_counts, lastDecision.key, 0) = lastDecision.pre_burst

\* what the code keeps: the timestamp log is the same after a denial, and
\* the burst counter is the same after a burst denial; a minute or hour
\* denial that found the counter saturated a second or more after the last
\* admission leaves it at zero
DenialKeepsLog ==
    JustDenied =>
        /\ Get(request_counts, lastDecision.key, <<>>) = lastDecision.pre_times
        /\ Get(burst_counts, lastDecision.key, 0) =
              IF /\ lastDecision.error # "burst_limit_exceeded"
                 /\ lastDecision.pre_burst >= lastDecision.limits.burst
              THEN 0
              ELSE lastDecision.pre_burst

DenialResetWitness ==
    /\ JustDenied
    /\ lastDecision.pre_burst > 0
    /\ Get(burst_counts, lastDecision.key, 0) = 0

BurstDenialWitness ==
    /\ JustDenied
    /\ lastDecision.error = "burst_limit_exceeded"
    /\ Get(burst_counts, lastDecision.key, 0) = lastDecision.pre_burst

\* ---- one state per identity, whatever the endpoint ----
\* the last arrival was answered by the limiter (not bypassed)
JustDecided == lastDecision.seq = arrivals /\ arrivals > 0

\* the admissions recorded before the last arrival was decided
PriorAdmissions ==
    IF lastDecision.allowed THEN SubSeq(admitLog, 1, Len(admitLog) - 1) ELSE admitLog

\* how many of them belong to the deciding identity, on any endpoint, and
\* are younger than the cutoff
AdmittedSince(cutoff) ==
    Cardinality({ i \in 1..Len(PriorAdmissions) :
                     /\ PriorAdmissions[i][1] = lastDecision.key
                     /\ PriorAdmissions[i][2] > cutoff })

\* the endpoints on which the deciding identity had been admitted before
EndpointsCalled ==
    { PriorAdmissions[i][3] : i \in { j \in 1..Len(PriorAdmissions) :
                                         PriorAdmissions[j][1] = lastDecision.key } }

\* C35: the timestamp log and the burst counter are kept per identity and
\* shared by all endpoints, the endpoint only selects the caps: the caps
\* compared are those of the request's endpoint, the minute and hour counts
\* of a decision are the identity's admissions on all endpoints within the
\* window, the counts are below the endpoint's caps on admission and at or
\* above the cap named by a denial, and an admission on any endpoint adds
\* one to the identity's single burst counter
C35_SharedAcrossEndpoints ==
    JustDecided =>
        LET d == lastDecision
            minute == AdmittedSince(d.time - Sec(MinuteWindow))
            hour == AdmittedSince(d.time - Sec(HourWindow))
        IN  /\ d.limits = IF d.endpoint = "/save" THEN config.save ELSE config.default
            /\ \A i \in 1..Len(PriorAdmissions) :
                  (/\ PriorAdmissions[i][1] = d.key
                   /\ PriorAdmissions[i][2] > d.time - Sec(HourWindow))
                  => \E j \in 1..Len(d.pre_times) : d.pre_times[j] = PriorAdmissions[i][2]
            /\ d.allowed =>
                  /\ d.minute_requests = minute /\ minute < d.limits.rpm
                  /\ d.hour_requests = hour /\ hour < d.limits.rph
                  /\ Get(burst_counts, d.key, 0) =
                        (IF d.pre_burst >= d.limits.burst THEN 0 ELSE d.pre_burst) + 1
            /\ d.error = "burst_limit_exceeded" => d.pre_burst >= d.limits.burst
            /\ d.error = "minute_limit_exceeded" => minute >= d.limits.rpm
            /\ d.error = "hour_limit_exceeded" =>
                  minute < d.limits.rpm /\ hour >= d.limits.rph

\* an identity is denied on an endpoint it has never been admitted on, by
\* the requests it was admitted for on another endpoint
DeniedOnNewEndpoint ==
    /\ JustDecided
    /\ ~lastDecision.allowed
    /\ EndpointsCalled # {}
    /\ lastDecision.endpoint \notin EndpointsCalled

\* an admission on one endpoint has raised the burst counter that an
\* admission on another endpoint had left
BurstSharedWitness ==
    /\ JustDecided
    /\ lastDecision.allowed
    /\ lastDecision.pre_burst >= 1
    /\ lastDecision.pre_burst < lastDecision.limits.burst
    /\ lastDecision.endpoint \notin EndpointsCalled

\* ---- the limiter next to its twins ----
\* Five requests are what it takes for a cleanup pass to show: two recorded
\* requests of one identity, a request of another identity more than an
\* hour later, and two more requests of the first.
MaxTwinRequests == 5

\* half a second, and a tick more than an hour
TwinAdvances == { 1, Sec(HourWindow) + 1 }

TwinPaths == { "/save", "/health" }

ArriveBypassed(c, path, dt) ==
    /\ arrivals < MaxTwinRequests
    /\ Bypassed(path)
    /\ LimiterBypass(dt)
    /\ UNCHANGED <<inflight, lastOutcome>>
    /\ UNCHANGED batchVars
    /\ UNCHANGED extVars

ArriveAllowed(c, path, dt) ==
    /\ arrivals < MaxTwinRequests
    /\ LimiterAdmit(c, path, dt)
    /\ UNCHANGED <<inflight, lastOutcome>>
    /\ UNCHANGED batchVars
    /\ UNCHANGED extVars

ArriveDenied(c, path, dt) ==
    /\ arrivals < MaxTwinRequests
    /\ LimiterDeny(c, path, dt)
    /\ UNCHANGED <<inflight, lastOutcome>>
    /\ UNCHANGED batchVars
    /\ UNCHANGED extVars

NextTwins ==
    \/ \E c \in Callers, path \in TwinPaths, dt \in TwinAdvances : ArriveBypassed(c, path, dt)
    \/ \E c \in Callers, path \in TwinPaths, dt \in TwinAdvances : ArriveAllowed(c, path, dt)
    \/ \E c \in Callers, path \in TwinPaths, dt \in TwinAdvances : ArriveDenied(c, path, dt)

\* check_rate_limit called request after request, the twins alongside
SpecTwins == InitLimiterRun /\ [][NextTwins]_vars

\* the twin answered the last request as this limiter did
SameAnswer(twin) ==
    /\ twin.allowed = lastDecision.allowed
    /\ twin.error = lastDecision.error

\* C36: admission decisions for one identity do not depend on other
\* identities' traffic: every decision for the watched identity is the one
\* a limiter makes that has seen the same requests of this identity at the
\* same times and no request of anybody else
C36_OthersInvisible ==
    (JustDecided /\ lastDecision.key = Watched) => SameAnswer(twins.alone)

\* what the code keeps: the decisions for the watched identity are those of
\* the limiter that sees nobody else for as long as no cleanup pass has
\* deleted the watched identity
OthersInvisibleUntilRemoved ==
    (JustDecided /\ lastDecision.key = Watched /\ Watched \notin twins.removed)
        => SameAnswer(twins.alone)

\* the watched identity is denied after another identity was admitted
OthersWitness ==
    /\ JustDecided
    /\ lastDecision.key = Watched
    /\ ~lastDecision.allowed
    /\ Watched \notin twins.removed
    /\ \E i \in 1..Len(admitLog) : admitLog[i][1] # Watched

\* a pass triggered by another identity's request has deleted the watched
\* identity, and the next but one request of the watched identity is
\* admitted where the limiter without the other identity denies it
OthersChangedDecision ==
    /\ JustDecided
    /\ lastDecision.key = Watched
    /\ Watched \in twins.removed
    /\ lastDecision.allowed
    /\ ~twins.alone.allowed

\* C37: cleanup only frees memory and is invisible to admission: the outcome
\* and the denial reason of every request are the same as in a limiter that
\* receives the same requests and never runs a cleanup pass
C37_CleanupInvisible ==
    JustDecided => SameAnswer(twins.unclean)

\* what the code keeps: the passes are invisible for as long as none of
\* them has deleted an identity; dropping the timestamps older than an hour
\* of an identity that stays changes no decision
TrimmingInvisible ==
    (JustDecided /\ twins.removed = {}) => SameAnswer(twins.unclean)

\* a pass has dropped old timestamps of an identity it kept, and the
\* identity's next request is decided as without the pass
TrimmedWitness ==
    /\ JustDecided
    /\ twins.removed = {}
    /\ last_cleanup > 0
    /\ last_cleanup < lastDecision.time
    /\ Len(lastDecision.pre_times) <
          Len(Get(twins.unclean.rc, lastDecision.key, <<>>)) -
              (IF lastDecision.allowed THEN 1 ELSE 0)

\* a pass has deleted an identity and its unsaturated burst counter, and a
\* later request of that identity is admitted where the limiter without
\* passes answers burst_limit_exceeded
CleanupChangedDecision ==
    /\ JustDecided
    /\ lastDecision.key \in twins.removed
    /\ lastDecision.allowed
    /\ twins.unclean.error = "burst_limit_exceeded"

\* ---- the batch under a fair event loop ----
\* the indices a worker can have
WorkerIds == 1..(SaveMaxBatch + 1)

\* The event loop runs every task that is ready: the handler's validation,
\* a worker at the head of the semaphore's queue when a slot is free, and
\* the handler once gather has every result.  Each service call that was
\* started returns or raises.
FairBatch ==
    /\ WF_vars(PreflightReject)
    /\ WF_vars(PreflightPass)
    /\ WF_vars(\E i \in 1..N : Acquire(i))
    /\ \A i \in WorkerIds : WF_vars(i \in 1..N /\ ServiceReturns(i))
    /\ WF_vars(Aggregate)

SpecBatchFair == InitBatchRun /\ [][NextBatch]_vars /\ FairBatch

\* the handler has answered with its report
Reported == bpc = "done" /\ response.status = 200

BatchEnds ==
    (bpc = "running") ~>
        /\ bpc = "done"
        /\ \A i \in 1..N : wpc[i] = "done" /\ svcCalls[i] = 1
        /\ semaphore = MaxConcurrent(batchKind, N)
        /\ response.status = 200 \/ (batchKind = "save" /\ CountNoTime(taskResult) > 0)

\* a worker's slot is back whichever way its service call ended
SlotReleased ==
    [][\A i \in 1..N :
          (wpc[i] = "inservice" /\ wpc'[i] = "done") => semaphore' = semaphore + 1]_vars

\* a batch with more items than slots has ended after an item raised and
\* another got a failure response
WaitersServed ==
    /\ bpc = "done"
    /\ N > MaxConcurrent(batchKind, N)

RaisedAndReported ==
    /\ Reported
    /\ \E i \in 1..N : svcOutcome[i] = "raise"

FailureResponseEnds500 ==
    /\ bpc = "done"
    /\ response.status = 500

\* ---- DELETE /memory/{id} next to other requests ----
\* number of deletions that arrive
MaxDeletes == 2

\* every record at the same distance from the query
EvenDistances == { [id \in PathIds \ {0} |-> 0] }

\* memory.py 130-149: the handler checks the id and asks the store for the
\* record; 400 and 404 are answered at once.  Between this call and the
\* deletion the handler awaits, and the model lets any other request run
\* there (the requests of another worker process on the same store do; inside
\* one event loop the store calls do not suspend and the two steps follow
\* each other).
DeleteArrives(pid, get_ok) ==
    /\ Len(deletes) < MaxDeletes
    /\ deletes' = Append(deletes,
                     IF DeleteStatus(collection, pid, get_ok, TRUE) = 200
                     THEN [id |-> pid, pc |-> "checked", status |-> 0]
                     ELSE [id |-> pid, pc |-> "done",
                           status |-> DeleteStatus(collection, pid, get_ok, TRUE)])
    /\ UNCHANGED <<llm_provider, hash_order, collection, next_id, spc, sreq,
                   llm_response, invoked, collection_before, reply, ops, saved,
                   search, extraction>>
    /\ UNCHANGED otherVars

\* memory.py 151-170 with chroma_client.py 184-206: collection.delete, which
\* does not raise for an id that is no longer stored; 500 when it raised
DeleteCalls(n, delete_ok) ==
    /\ n \in 1..Len(deletes)
    /\ deletes[n].pc = "checked"
    /\ deletes' = [deletes EXCEPT ![n] = [id |-> deletes[n].id, pc |-> "done",
                                          status |-> IF delete_ok THEN 200 ELSE 500]]
    /\ collection' = IF delete_ok THEN Without(collection, deletes[n].id) ELSE collection
    /\ UNCHANGED <<llm_provider, hash_order, next_id, spc, sreq, llm_response,
                   invoked, collection_before, reply, ops, saved, search, extraction>>
    /\ UNCHANGED otherVars

NextDeletes ==
    \/ \E pid \in PathIds, get_ok \in BOOLEAN : DeleteArrives(pid, get_ok)
    \/ \E n \in 1..MaxDeletes, delete_ok \in BOOLEAN : DeleteCalls(n, delete_ok)
    \/ SaveAccepted(OkSave)
    \/ \E pick \in MockPicks : MockSummarized({}, pick)
    \/ EmbedderReturns
    \/ StoreAdds
    \/ \E id \in PathIds \ {0} : GetMemory(id)
    \/ \E pid \in PathIds, store_ok \in BOOLEAN : GetMemoryRefused(pid, store_ok)
    \/ \E emotions \in ListEmotions, store_ok \in BOOLEAN : ListMemories(emotions, <<>>, <<>>, 50, 0, store_ok)
    \/ \E dist \in EvenDistances : SearchCompleted(StrText, 5, <<>>, dist)

\* the service on a collection of at most MaxDated records
InitDeletesRun == InitRecordsRun /\ Cardinality(DOMAIN collection) <= MaxDated

\* deletions, reads, lists, searches and saves in any interleaving
SpecDeletes == InitDeletesRun /\ [][NextDeletes]_vars

\* the ids whose deletion has been answered with success
DeletedOk ==
    { deletes[n].id : n \in { m \in 1..Len(deletes) :
                                 deletes[m].pc = "done" /\ deletes[m].status = 200 } }

\* C39: after delete-by-id has reported success for an id, the store is
\* without that record, every later get-by-id for it is answered not-found
\* and no later search or list result contains it; a step of a deletion,
\* concurrent ones of the same id included, removes no record but its own
C39_DeletedStaysDeleted ==
    /\ [](DeletedOk \cap DOMAIN collection = {})
    /\ [][/\ (ops' = ops + 1 /\ reply'.op = "get" /\ reply'.memory_id \in DeletedOk)
                => reply'.status = 404
          /\ (ops' = ops + 1 /\ reply'.op \in { "search", "list" })
                => (reply'.status = 200
                    /\ Range(ResultIds(reply'.results)) \cap DeletedOk = {})
          /\ \A n \in 1..Len(deletes') :
                (n > Len(deletes) \/ deletes'[n] # deletes[n]) =>
                    \A k \in (DOMAIN collection) \ { deletes'[n].id } :
                        k \in DOMAIN collection' /\ collection'[k] = collection[k]]_vars

\* two deletions of the same id were in progress together, both reported
\* success, another record is still stored, and the id was asked for
\* afterwards
ConcurrentDeletesWitness ==
    /\ Len(deletes) = 2
    /\ deletes[1].id = deletes[2].id
    /\ deletes[1].status = 200 /\ deletes[2].status = 200
    /\ collection # EmptyDict
    /\ reply.op = "get"
    /\ reply.memory_id = deletes[1].id
    /\ reply.status = 404

\* a list was answered after a deletion and a save, with the saved record
\* and without the deleted one
ListAfterDeleteWitness ==
    /\ DeletedOk # {}
    /\ reply.op = "list"
    /\ reply.results # <<>>
    /\ saved # EmptyDict

SearchAfterDeleteWitness ==
    /\ DeletedOk # {}
    /\ reply.op = "search"
    /\ reply.results # <<>>

====
